---- MODULE Spec2Model ----
(***************************************************************************)
(* A model of the markdown build plugin (markdown-plugin.ts) and of the    *)
(* runtime data access (markdown-data.ts).                                 *)
(*                                                                         *)
(*   SpecExec   execConcurrently, one call, every interleaving of the      *)
(*              handlers' settlements                                      *)
(*   SpecFetch  fetchContent, one call at a time, over every state of the  *)
(*              compressed and the uncompressed asset                      *)
(*   SpecCheck  checkForChanges as a function of the previous manifest and *)
(*              the current files                                          *)
(*   Spec       the build with chunkByFolder on: user edits of the source  *)
(*              tree, buildStart and handleHotUpdate, and the artifacts    *)
(*              they write                                                 *)
(*   SpecSingle the same with chunkByFolder off                            *)
(*   SpecBuilds buildStart runs only, in either mode                       *)
(***************************************************************************)
EXTENDS Integers, Sequences, FiniteSets, TLC

VARIABLES
  \* execConcurrently
  exItems, exLimit, exNext, exExecuting, exI, exPc, exStatus, exCalls,
  \* fetchContent
  assets, fcUrl, fcPc, fcLog, fcGzOk, fcResult,
  \* checkForChanges
  ckPrevious, ckCurrent, ckResult,
  \* the build: options, source tree, written artifacts, history
  cfg, files, manifestFile, contentFile, chunkFiles, produced, last, edits, runs,
  \* the runtime: its four caches, what was fetched since they were cleared,
  \* and the last call
  globalManifestCache, manifestCache, contentCache, folderContentCache,
  rtFetched, rtCall,
  \* a function of the program applied to an argument
  fnArgs, fnResult, fnPc

execVars == <<exItems, exLimit, exNext, exExecuting, exI, exPc, exStatus, exCalls>>
fetchVars == <<assets, fcUrl, fcPc, fcLog, fcGzOk, fcResult>>
checkVars == <<ckPrevious, ckCurrent, ckResult>>
buildVars == <<cfg, files, manifestFile, contentFile, chunkFiles, produced, last, edits, runs>>
fnVars == <<fnArgs, fnResult, fnPc>>
runtimeVars == <<globalManifestCache, manifestCache, contentCache, folderContentCache, rtFetched, rtCall>>
vars == <<execVars, fetchVars, checkVars, buildVars, runtimeVars, fnVars>>
notExec == <<fetchVars, checkVars, buildVars, runtimeVars, fnVars>>
notFetch == <<execVars, checkVars, buildVars, runtimeVars, fnVars>>
notCheck == <<execVars, fetchVars, buildVars, runtimeVars, fnVars>>
notBuild == <<execVars, fetchVars, checkVars, runtimeVars, fnVars>>
notRuntime == <<execVars, fetchVars, checkVars, fnVars>>
notFn == <<execVars, fetchVars, checkVars, buildVars, runtimeVars>>

(***************************************************************************)
(* Bounds.                                                                 *)
(***************************************************************************)
MaxItems == 4
MaxLimit == 3
MaxStamp == 2
MaxEdits == 1
MaxFiles == 2
MaxRuns == 2
MaxBlocks == 3
MaxSlugLen == 3
MaxRecords == 3

(***************************************************************************)
(* execConcurrently(items, limit, handler)                                 *)
(***************************************************************************)
ExItemIds == 1..exItems

\* executing.length >= limit; AtLimitOffByOne is the faulty comparison len > limit.
AtLimitOffByOne(len, limit) == len > limit
AtLimit(len, limit) == len >= limit

Settled(i) == exStatus[i] \in {"fulfilled", "rejected"}
InFlight == {i \in ExItemIds : exStatus[i] = "pending"}

\* executing.splice(i, 1)
Splice(s, i) == [k \in 1..(Len(s) - 1) |-> IF k < i THEN s[k] ELSE s[k + 1]]

ExecIdle ==
  /\ exItems = 0 /\ exLimit = 1 /\ exNext = 1 /\ exExecuting = <<>>
  /\ exI = 0 /\ exPc = "idle" /\ exStatus = <<>> /\ exCalls = <<>>

ExecInit ==
  /\ exItems \in 0..MaxItems
  /\ exLimit \in 1..MaxLimit
  /\ exNext = 1
  /\ exExecuting = <<>>
  /\ exI = 0
  /\ exPc = "loop"
  /\ exStatus = [i \in 1..exItems |-> "unstarted"]
  /\ exCalls = [i \in 1..exItems |-> 0]

\* for (const item of items) { const p = handler(item); executing.push(p); if (...) }
ExecStart ==
  /\ UNCHANGED notExec
  /\ exPc = "loop" /\ exNext <= exItems
  /\ exCalls' = [exCalls EXCEPT ![exNext] = @ + 1]
  /\ exStatus' = [exStatus EXCEPT ![exNext] = "pending"]
  /\ exExecuting' = Append(exExecuting, exNext)
  /\ exNext' = exNext + 1
  /\ exPc' = IF AtLimit(Len(exExecuting'), exLimit) THEN "race" ELSE "loop"
  /\ UNCHANGED <<exItems, exLimit, exI>>

\* await Promise.race(executing).catch(() => {}): resumes once one has settled
ExecRace ==
  /\ UNCHANGED notExec
  /\ exPc = "race"
  /\ \E k \in 1..Len(exExecuting) : Settled(exExecuting[k])
  /\ exPc' = "drain"
  /\ exI' = Len(exExecuting)
  /\ UNCHANGED <<exItems, exLimit, exNext, exExecuting, exStatus, exCalls>>

\* for (i = executing.length - 1; i >= 0; i--) { await executing[i]; splice }
\* (the await blocks until executing[i] has settled; a rejection is caught)
ExecDrain ==
  /\ UNCHANGED notExec
  /\ exPc = "drain"
  /\ IF exI = 0
       THEN /\ exPc' = "loop"
            /\ UNCHANGED <<exExecuting, exI>>
       ELSE /\ Settled(exExecuting[exI])
            /\ exExecuting' = Splice(exExecuting, exI)
            /\ exI' = exI - 1
            /\ exPc' = "drain"
  /\ UNCHANGED <<exItems, exLimit, exNext, exStatus, exCalls>>

\* the loop is over: await Promise.allSettled(executing)
ExecLoopEnd ==
  /\ UNCHANGED notExec
  /\ exPc = "loop" /\ exNext > exItems
  /\ exPc' = "final"
  /\ UNCHANGED <<exItems, exLimit, exNext, exExecuting, exI, exStatus, exCalls>>

\* Promise.allSettled(executing) resolves once each promise has settled,
\* fulfilled or rejected; AllSettledNoWait is the faulty variant that omits the await.
AllSettledNoWait(executing) == TRUE
AllSettled(executing) == \A k \in 1..Len(executing) : Settled(executing[k])

ExecResolve ==
  /\ UNCHANGED notExec
  /\ exPc = "final"
  /\ AllSettled(exExecuting)
  /\ exPc' = "done"
  /\ UNCHANGED <<exItems, exLimit, exNext, exExecuting, exI, exStatus, exCalls>>

\* a started handler fulfils or rejects, at any time
HandlerSettle ==
  /\ UNCHANGED notExec
  /\ \E i \in InFlight, outcome \in {"fulfilled", "rejected"} :
       exStatus' = [exStatus EXCEPT ![i] = outcome]
  /\ UNCHANGED <<exItems, exLimit, exNext, exExecuting, exI, exPc, exCalls>>

ExecNext ==
  \/ ExecStart
  \/ ExecRace
  \/ ExecDrain
  \/ ExecLoopEnd
  \/ ExecResolve
  \/ HandlerSettle

(***************************************************************************)
(* fetchContent(url, assets): the compressed asset first, then the         *)
(* uncompressed one.  A URL is a sequence of its parts; an asset is        *)
(* "valid" (the response is ok and its body decompresses/parses),          *)
(* "corrupt" (ok, but decompression or JSON parsing throws), "missing"     *)
(* (the response is not ok) or "throws" (the fetch itself rejects).        *)
(***************************************************************************)
AssetNames == {"markdown-manifest", "markdown-content"}
AssetStates == {"valid", "corrupt", "missing", "throws"}
AssetUrls == UNION {{<<n, ".json">>, <<n, ".json", ".gz">>} : n \in AssetNames}

\* url.endsWith('.gz')
EndsWithGz(url) == Len(url) > 0 /\ url[Len(url)] = ".gz"

\* url.replace('.gz', ''): the first occurrence only
RemoveFirstGz(url) ==
  LET hits == {k \in 1..Len(url) : url[k] = ".gz"}
      first == CHOOSE k \in hits : \A j \in hits : k <= j
  IN  IF hits = {} THEN url ELSE Splice(url, first)

BaseUrl(url) == IF EndsWithGz(url) THEN RemoveFirstGz(url) ELSE url
GzUrl(url) == Append(BaseUrl(url), ".gz")

NoResult == [kind |-> "none", from |-> <<>>]
Parsed(url) == [kind |-> "json", from |-> url]

\* Where fetchContent goes after the compressed attempt on an asset in state st:
\* it returns the parsed result, or falls through to the uncompressed attempt
\* (not ok: no return; a throw: caught and ignored).  Two faulty variants: no return
\* after a successful parse, and a compression error that is not caught.
AfterCompressedNoReturn(st) == "plain"
AfterCompressedNoCatch(st) ==
  IF st = "valid" THEN "returned"
  ELSE IF st \in {"throws", "corrupt"} THEN "thrown" ELSE "plain"
AfterCompressed(st) == IF st = "valid" THEN "returned" ELSE "plain"

\* After the uncompressed attempt: the parsed JSON, or the error thrown on.
AfterUncompressed(st) == IF st = "valid" THEN "returned" ELSE "thrown"

\* What fetchContent yields as a whole, for callers that only need its result.
FetchContentResult(gzState, plainState, gzData, plainData) ==
  IF AfterCompressed(gzState) = "returned" THEN [ok |-> TRUE, data |-> gzData]
  ELSE IF AfterUncompressed(plainState) = "returned" THEN [ok |-> TRUE, data |-> plainData]
  ELSE [ok |-> FALSE, data |-> plainData]

FetchIdle ==
  /\ assets = [u \in AssetUrls |-> "missing"]
  /\ fcUrl = <<>> /\ fcPc = "idle" /\ fcLog = <<>> /\ fcGzOk = "none"
  /\ fcResult = NoResult

FetchInit ==
  /\ assets \in [AssetUrls -> AssetStates]
  /\ fcUrl = <<>> /\ fcPc = "idle" /\ fcLog = <<>> /\ fcGzOk = "none"
  /\ fcResult = NoResult

\* a caller enters fetchContent with the base URL or with the .gz URL
FetchCall ==
  /\ UNCHANGED notFetch
  /\ fcPc = "idle"
  /\ \E url \in AssetUrls : fcUrl' = url
  /\ fcPc' = "gz"
  /\ fcLog' = <<>>
  /\ fcGzOk' = "none"
  /\ fcResult' = NoResult
  /\ UNCHANGED assets

\* try { const gzResponse = await fetchFn(gzUrl); if (ok) { ...; return parsed } } catch {}
FetchCompressed ==
  /\ UNCHANGED notFetch
  /\ fcPc = "gz"
  /\ fcLog' = Append(fcLog, GzUrl(fcUrl))
  /\ fcGzOk' = IF assets[GzUrl(fcUrl)] = "valid" THEN "yes" ELSE "no"
  /\ fcPc' = AfterCompressed(assets[GzUrl(fcUrl)])
  /\ fcResult' = IF fcPc' = "returned" THEN Parsed(GzUrl(fcUrl)) ELSE NoResult
  /\ UNCHANGED <<assets, fcUrl>>

\* try { const response = await fetchFn(baseUrl); ... return parsed } catch { throw }
FetchUncompressed ==
  /\ UNCHANGED notFetch
  /\ fcPc = "plain"
  /\ fcLog' = Append(fcLog, BaseUrl(fcUrl))
  /\ fcPc' = AfterUncompressed(assets[BaseUrl(fcUrl)])
  /\ fcResult' = IF fcPc' = "returned" THEN Parsed(BaseUrl(fcUrl)) ELSE NoResult
  /\ UNCHANGED <<assets, fcUrl, fcGzOk>>

\* the call is over (returned or thrown); the next call may start
FetchFinish ==
  /\ UNCHANGED notFetch
  /\ fcPc \in {"returned", "thrown"}
  /\ fcPc' = "idle"
  /\ UNCHANGED <<assets, fcUrl, fcLog, fcGzOk, fcResult>>

FetchNext ==
  \/ FetchCall
  \/ FetchCompressed
  \/ FetchUncompressed
  \/ FetchFinish

(***************************************************************************)
(* Paths, slugs and folders.  A path is the sequence of its characters.    *)
(***************************************************************************)
EXTENSION == <<".", "m", "d">>

P_x == <<"x", ".", "m", "d">>
P_y == <<"a", "/", "b", "/", "y", ".", "m", "d">>
P_z == <<"a", "-", "b", "/", "z", ".", "m", "d">>
P_w == <<"a", "-", "b", "/", "w", ".", "m", "d">>
Paths == {P_x, P_y, P_z, P_w}

\* s.endsWith(suffix)
EndsWith(q, suffix) ==
  /\ Len(q) >= Len(suffix)
  /\ SubSeq(q, Len(q) - Len(suffix) + 1, Len(q)) = suffix

\* path.dirname(relPath): "." for a path with no separator
Dirname(p) ==
  LET seps == {k \in 1..Len(p) : p[k] = "/"}
      lastSep == CHOOSE k \in seps : \A j \in seps : j <= k
  IN  IF seps = {} THEN <<".">> ELSE SubSeq(p, 1, lastSep - 1)

\* relPath.replace(new RegExp(`${extension}$`), ''): the "." of ".md" is a
\* regular-expression wildcard
SlugOf(p) ==
  LET n == Len(p)
  IN  IF n >= 3 /\ p[n - 1] = EXTENSION[2] /\ p[n] = EXTENSION[3]
        THEN SubSeq(p, 1, n - 3) ELSE p

\* a record's folder: undefined (here the empty sequence) for a root-level file
NoFolder == <<>>
RecordFolder(p) == IF Dirname(p) = <<".">> THEN NoFolder ELSE Dirname(p)

\* the folder a file is grouped under: 'root' for a root-level file
RootFolder == <<"r", "o", "o", "t">>
GroupFolder(p) == IF Dirname(p) = <<".">> THEN RootFolder ELSE Dirname(p)

\* meta.folder || 'root'
FolderOrRoot(folder) == IF folder = NoFolder THEN RootFolder ELSE folder

\* folder.replace(/[/\\]/g, '-'), the name part of a folder's chunk file
FolderKey(folder) ==
  [k \in 1..Len(folder) |-> IF folder[k] \in {"/", "\\"} THEN "-" ELSE folder[k]]

\* String.prototype.localeCompare on the characters in use: punctuation
\* before letters, "-" before "." before "/"
CharRank(c) ==
  CASE c = "-" -> 1 [] c = "." -> 2 [] c = "/" -> 3 [] c = "\\" -> 4
    [] c = "a" -> 10 [] c = "b" -> 11 [] c = "d" -> 12 [] c = "m" -> 13
    [] c = "o" -> 14 [] c = "r" -> 15 [] c = "t" -> 16 [] c = "w" -> 17
    [] c = "x" -> 18 [] c = "y" -> 19 [] c = "z" -> 20 [] OTHER -> 30

LocaleCompare(s, t) ==
  LET n == IF Len(s) < Len(t) THEN Len(s) ELSE Len(t)
      diffs == {k \in 1..n : s[k] # t[k]}
      d == CHOOSE k \in diffs : \A j \in diffs : k <= j
  IN  IF diffs # {} THEN CharRank(s[d]) - CharRank(t[d])
      ELSE Len(s) - Len(t)

(***************************************************************************)
(* Manifest records and sortManifest.                                      *)
(***************************************************************************)
Stamps == 1..MaxStamp
NoDate == 0

\* a file's metadata as collectMarkdownFilesWithMetadata reads it
Metadata(mtime, size) == [mtime |-> mtime, size |-> size]

\* manifest.push({ slug, path: relPath, folder, _mtime, _size, ...frontmatter })
\* for a file whose frontmatter holds at most a date
MakeRecord(relPath, metadata, date) ==
  [slug |-> SlugOf(relPath), path |-> relPath, folder |-> RecordFolder(relPath),
   _mtime |-> metadata.mtime, _size |-> metadata.size, date |-> date]

\* a.date, a.title: the field is set and not empty
HasDate(a) == "date" \in DOMAIN a /\ a.date # NoDate
HasTitle(a) == "title" \in DOMAIN a /\ a.title # <<>>

\* the comparator of sortManifest
CompareMeta(a, b) ==
  IF a.folder # b.folder THEN LocaleCompare(a.folder, b.folder)
  ELSE IF HasDate(a) /\ HasDate(b) THEN b.date - a.date
  ELSE IF HasTitle(a) /\ HasTitle(b) THEN LocaleCompare(a.title, b.title)
  ELSE LocaleCompare(a.slug, b.slug)

\* Array.prototype.sort with that comparator: a stable insertion sort, which
\* is what the engine runs on arrays this short
RECURSIVE InsertSorted(_, _)
InsertSorted(sorted, x) ==
  IF sorted = <<>> THEN <<x>>
  ELSE IF CompareMeta(sorted[Len(sorted)], x) <= 0 THEN Append(sorted, x)
  ELSE Append(InsertSorted(SubSeq(sorted, 1, Len(sorted) - 1), x), sorted[Len(sorted)])

RECURSIVE SortFrom(_, _)
SortFrom(sorted, rest) ==
  IF rest = <<>> THEN sorted
  ELSE SortFrom(InsertSorted(sorted, Head(rest)), Tail(rest))

sortManifest(manifest) == SortFrom(<<>>, manifest)

\* the sequences that list every element of a set once
Orders(S) ==
  {s \in [1..Cardinality(S) -> S] : \A i, j \in 1..Cardinality(S) : i # j => s[i] # s[j]}

(***************************************************************************)
(* checkForChanges(dir, previous)                                          *)
(***************************************************************************)
NoMeta ==
  [slug |-> <<>>, path |-> <<>>, folder |-> NoFolder, _mtime |-> 0, _size |-> 0,
   date |-> NoDate]

\* new Map(previous.map(entry => [entry.path, entry])).get(relPath): the last
\* entry of that path, undefined (NoMeta) when there is none
PreviousGet(previous, relPath) ==
  LET hits == {k \in 1..Len(previous) : previous[k].path = relPath}
  IN  IF hits = {} THEN NoMeta
      ELSE previous[CHOOSE k \in hits : \A j \in hits : j <= k]

\* isFileChanged(prev, current), with a faulty variant that forgets the size
isFileChangedNoSize(prev, current) == prev = NoMeta \/ prev._mtime # current.mtime
isFileChanged(prev, current) ==
  prev = NoMeta \/ prev._mtime # current.mtime \/ prev._size # current.size

\* currentFiles: a function from the relative paths found to their metadata
checkForChanges(previous, currentFiles) ==
  IF \E relPath \in DOMAIN currentFiles :
       isFileChanged(PreviousGet(previous, relPath), currentFiles[relPath])
    THEN TRUE
  ELSE IF Len(previous) # Cardinality(DOMAIN currentFiles) THEN TRUE
  ELSE FALSE

CheckPaths == {P_x, P_z}
FileMaps == UNION {[S -> [mtime : Stamps, size : Stamps]] : S \in SUBSET CheckPaths}

\* the manifest a single-mode build writes for the files fm
ManifestOf(fm, order) ==
  sortManifest([k \in 1..Len(order) |-> MakeRecord(order[k], fm[order[k]], NoDate)])

CheckIdle == ckPrevious = <<>> /\ ckCurrent = <<>> /\ ckResult = "none"

CheckInit ==
  /\ \E fm \in FileMaps : \E order \in Orders(DOMAIN fm) :
       ckPrevious = ManifestOf(fm, order)
  /\ ckCurrent \in FileMaps
  /\ ckResult = "none"

CheckApply ==
  /\ UNCHANGED notCheck
  /\ ckResult = "none"
  /\ ckResult' = IF checkForChanges(ckPrevious, ckCurrent) THEN "changed" ELSE "unchanged"
  /\ UNCHANGED <<ckPrevious, ckCurrent>>

CheckNext ==
  \/ CheckApply

(***************************************************************************)
(* The source tree and the artifacts on disk.                              *)
(***************************************************************************)
\* A source file: its mtime and size, the version of its markdown body
\* (BadBody: a body with a code block the highlighter rejects) and the date
\* of its frontmatter (NoDate: none).
BadBody == 0
Bodies == {BadBody, 1, 2}
Dates == {NoDate} \cup Stamps
Absent == [present |-> FALSE, mtime |-> 0, size |-> 0, body |-> 0, date |-> NoDate]
FileStates == [present : {TRUE}, mtime : Stamps, size : Stamps, body : Bodies, date : Dates]

\* new Date(fileMtime).toISOString().split('T')[0]: the day of a modification
\* time; the model's modification times lie on different days
DateOf(mtime) == mtime

Slugs == {SlugOf(p) : p \in Paths}
Folders == {GroupFolder(p) : p \in Paths}
ChunkKeys == {FolderKey(f) : f \in Folders}

\* a JSON content artifact: exists, and the entries it holds by slug
NoArtifact == [exists |-> FALSE, entries |-> <<>>]
Artifact(entries) == [exists |-> TRUE, entries |-> entries]
\* the compressed and the uncompressed file of one artifact name
NoPair == [gz |-> NoArtifact, plain |-> NoArtifact]

NoManifest ==
  [exists |-> FALSE, documents |-> <<>>, _buildMode |-> "single",
   hasChunkedFolders |-> FALSE, chunkedFolders |-> {}]

\* content[slug] = { frontmatter, content: html }
NoContent == [frontmatter |-> NoDate, content |-> BadBody]
MakeContent(date, body) == [frontmatter |-> date, content |-> body]

PresentPaths(fs) == {p \in Paths : fs[p].present}

collectMarkdownFilesWithMetadata(fs) ==
  [p \in PresentPaths(fs) |-> Metadata(fs[p].mtime, fs[p].size)]

\* folder -> the relative paths of its files
collectFilesByFolder(fs) ==
  [f \in {GroupFolder(p) : p \in PresentPaths(fs)} |->
     {p \in PresentPaths(fs) : GroupFolder(p) = f}]

\* updateFrontmatterDate: the file is rewritten with date = the day of its
\* mtime (newSize: the size of the rewritten file) and its mtime is restored
NeedsDate(file) == cfg.updateDate /\ file.date # DateOf(file.mtime)
updateFrontmatterDate(file, newSize) ==
  IF ~NeedsDate(file) THEN file
  ELSE [file EXCEPT !.date = DateOf(file.mtime), !.size = newSize]

\* processMarkdownFile reports an error for a body the highlighter rejects
ProcessingFails(file) == file.body = BadBody

\* loadPreviousManifest
loadPreviousManifest == IF manifestFile.exists THEN manifestFile.documents ELSE <<>>

\* The handlers of processChangedFiles / processFolderFiles over the files
\* in `order` (the order in which the handlers finish), on the tree fs;
\* newSizes gives the size of each file that updateFrontmatterDate rewrites.
RewrittenIn(fs, order) == {order[k] : k \in {j \in 1..Len(order) : NeedsDate(fs[order[j]])}}
UpdatedFile(fs, newSizes, p) ==
  IF NeedsDate(fs[p]) THEN updateFrontmatterDate(fs[p], newSizes[p]) ELSE fs[p]

ProcessedOk(fs, order) == SelectSeq(order, LAMBDA p : ~ProcessingFails(fs[p]))

\* manifest.push(...) per finished handler, then sortManifest(manifest)
FilesManifest(fs, order, newSizes) ==
  LET ok == ProcessedOk(fs, order)
  IN  sortManifest(
        [k \in 1..Len(ok) |->
           MakeRecord(ok[k], Metadata(fs[ok[k]].mtime, fs[ok[k]].size),
                      UpdatedFile(fs, newSizes, ok[k]).date)])

\* content[slug] = { frontmatter, content: html } per finished handler
FilesContent(fs, order, newSizes) ==
  LET okSet == {p \in {order[k] : k \in 1..Len(order)} : ~ProcessingFails(fs[p])}
  IN  [sl \in {SlugOf(p) : p \in okSet} |->
         LET p == CHOOSE q \in okSet : SlugOf(q) = sl
         IN  MakeContent(UpdatedFile(fs, newSizes, p).date, fs[p].body)]

\* errorCount++ per handler that threw
FilesErrors(fs, order) == Len(order) - Len(ProcessedOk(fs, order))

processFiles(fs, order, newSizes) ==
  [manifest |-> FilesManifest(fs, order, newSizes),
   content |-> FilesContent(fs, order, newSizes),
   errorCount |-> FilesErrors(fs, order)]

\* the tree after the handlers have run
FilesAfter(fs, order, newSizes) ==
  [p \in Paths |-> IF p \in {order[k] : k \in 1..Len(order)}
                     THEN UpdatedFile(fs, newSizes, p) ELSE fs[p]]

(***************************************************************************)
(* Change detection by folder, and the processing of folders.              *)
(***************************************************************************)
\* prevFilesByFolder.get(folder): the previous records grouped under a folder
PrevOfFolder(previous, folder) ==
  SelectSeq(previous, LAMBDA meta : FolderOrRoot(meta.folder) = folder)

\* one folder of checkForFolderChanges, with incrementalByFolder on
FolderChanged(previous, fs, folder, paths) ==
  LET prevFiles == PrevOfFolder(previous, folder)
      prevSize == Cardinality({prevFiles[k].path : k \in 1..Len(prevFiles)})
  IN  IF prevFiles = <<>> THEN TRUE
      ELSE IF \E relPath \in paths :
                isFileChanged(PreviousGet(prevFiles, relPath),
                              Metadata(fs[relPath].mtime, fs[relPath].size))
        THEN TRUE
      ELSE prevSize # Cardinality(paths)

\* checkForFolderChanges: the changed folders (allFolders is collectFilesByFolder)
checkForFolderChanges(previous, fs) ==
  LET allFolders == collectFilesByFolder(fs)
  IN  IF ~cfg.incrementalByFolder THEN DOMAIN allFolders
      ELSE {f \in DOMAIN allFolders : FolderChanged(previous, fs, f, allFolders[f])}

\* the files of the folders to process
FilesOfFolders(fs, folders) == {p \in PresentPaths(fs) : GroupFolder(p) \in folders}

\* the folders in the order in which their handlers finish: a folder's handler
\* finishes after the last of its files
FinishOrder(order) ==
  LET lastOf(f) == CHOOSE k \in 1..Len(order) :
                     /\ GroupFolder(order[k]) = f
                     /\ \A j \in 1..Len(order) : GroupFolder(order[j]) = f => j <= k
      marks == SelectSeq([k \in 1..Len(order) |-> k],
                         LAMBDA k : k = lastOf(GroupFolder(order[k])))
  IN  [i \in 1..Len(marks) |-> GroupFolder(order[marks[i]])]

\* the files of one folder, in the order in which their handlers finish
FolderOrder(order, folder) == SelectSeq(order, LAMBDA p : GroupFolder(p) = folder)

\* writeFolderFiles: the folder's chunk, compressed or not
ArtifactName(kind, key, gz) == [kind |-> kind, key |-> key, gz |-> gz]
writeFolderFiles(chunks, folder, content, compress) ==
  IF compress
    THEN [chunks EXCEPT ![FolderKey(folder)].gz = Artifact(content)]
    ELSE [chunks EXCEPT ![FolderKey(folder)].plain = Artifact(content)]

\* the chunk writes of processChangedFolders, folder by folder as they finish
RECURSIVE WriteFolders(_, _, _, _, _, _)
WriteFolders(chunks, fs, order, newSizes, folderSeq, compress) ==
  IF folderSeq = <<>> THEN chunks
  ELSE WriteFolders(
         writeFolderFiles(chunks, Head(folderSeq),
                          FilesContent(fs, FolderOrder(order, Head(folderSeq)), newSizes),
                          compress),
         fs, order, newSizes, Tail(folderSeq), compress)

\* globalManifest.push(...result.manifest), folder by folder as they finish
RECURSIVE PushFolders(_, _, _, _)
PushFolders(fs, order, newSizes, folderSeq) ==
  IF folderSeq = <<>> THEN <<>>
  ELSE FilesManifest(fs, FolderOrder(order, Head(folderSeq)), newSizes)
         \o PushFolders(fs, order, newSizes, Tail(folderSeq))

\* processChangedFolders over the files in `order` (those of the changed
\* folders that exist): its manifest, the chunks it leaves, the chunk files
\* it wrote and its error count; missing: the changed folders with no entry
\* in allFolders, whose handler throws and counts one error
FoldersManifest(fs, order, newSizes) ==
  sortManifest(PushFolders(fs, order, newSizes, FinishOrder(order)))
FoldersChunks(chunks, fs, order, newSizes, compress) ==
  WriteFolders(chunks, fs, order, newSizes, FinishOrder(order), compress)
FoldersWrote(order, compress) ==
  {ArtifactName("chunk", FolderKey(GroupFolder(order[k])), compress) : k \in 1..Len(order)}
FoldersErrors(fs, order, missing) == FilesErrors(fs, order) + Cardinality(missing)

\* writeMarkdownFiles: the manifest, and in single mode the content
writeManifest(manifest, folderList, withFolders) ==
  [exists |-> TRUE, documents |-> manifest,
   _buildMode |-> IF cfg.chunkByFolder THEN "chunked" ELSE "single",
   hasChunkedFolders |-> cfg.chunkByFolder /\ withFolders,
   chunkedFolders |-> IF cfg.chunkByFolder /\ withFolders THEN folderList ELSE {}]

WritesContent(content) == ~cfg.chunkByFolder /\ DOMAIN content # {}
writeContent(pair, content, compress) ==
  IF ~WritesContent(content) THEN pair
  ELSE IF compress THEN [pair EXCEPT !.gz = Artifact(content)]
  ELSE [pair EXCEPT !.plain = Artifact(content)]

\* the content most recently produced for each slug
Produce(content) ==
  [sl \in Slugs |-> IF sl \in DOMAIN content THEN content[sl] ELSE produced[sl]]

(***************************************************************************)
(* The build: Init, user edits, buildStart and handleHotUpdate.            *)
(***************************************************************************)
\* What the last step did: the operation, whether buildStart returned early,
\* the manifest documents it started from, the folders it took as changed,
\* the files it handled, the artifacts it wrote, its error count, and
\* whether the tree was (is) as a complete error-free buildStart left it.
Last(op, skipped, prevDocs, changedFolders, processed, wrote, errorCount, prevExists, cleanBefore, cleanAfter) ==
  [op |-> op, skipped |-> skipped, prevDocs |-> prevDocs,
   changedFolders |-> changedFolders, processed |-> processed, wrote |-> wrote,
   errorCount |-> errorCount, prevExists |-> prevExists,
   cleanBefore |-> cleanBefore, cleanAfter |-> cleanAfter]

NoStep == Last("none", FALSE, <<>>, {}, {}, {}, 0, FALSE, FALSE, FALSE)

Configs ==
  {c \in [chunkByFolder : BOOLEAN, incrementalByFolder : BOOLEAN, updateDate : BOOLEAN] :
     c.incrementalByFolder => c.chunkByFolder}

\* the files of the tree when the plugin is constructed
InitialFiles == {Absent} \cup [present : {TRUE}, mtime : {1}, size : {1}, body : {1}, date : {NoDate, 1}]

BuildIdle ==
  /\ cfg = [chunkByFolder |-> FALSE, incrementalByFolder |-> FALSE, updateDate |-> FALSE]
  /\ files = [p \in Paths |-> Absent]
  /\ manifestFile = NoManifest
  /\ contentFile = NoPair
  /\ chunkFiles = [k \in ChunkKeys |-> NoPair]
  /\ produced = [sl \in Slugs |-> NoContent]
  /\ last = NoStep
  /\ edits = 0
  /\ runs = 0

\* the state before the first build, for the options cfg
BuildInit(configs) ==
  /\ cfg \in configs
  /\ files \in [Paths -> InitialFiles]
  /\ Cardinality(PresentPaths(files)) <= MaxFiles
  /\ manifestFile = NoManifest
  /\ contentFile = NoPair
  /\ chunkFiles = [k \in ChunkKeys |-> NoPair]
  /\ produced = [sl \in Slugs |-> NoContent]
  /\ last = NoStep
  /\ edits = 0
  /\ runs = 0

\* The user adds, saves or removes a source file.  A save leaves the
\* frontmatter date as it was; a new file has no date or the date of its day.
NewFiles ==
  {st \in [present : {TRUE}, mtime : Stamps, size : {1}, body : {1}, date : Dates] :
     st.date \in {NoDate, DateOf(st.mtime)}}
EditsOf(file) ==
  IF file.present
    THEN {Absent} \cup ({st \in FileStates : st.date = file.date} \ {file})
    ELSE NewFiles

Edit ==
  /\ UNCHANGED notBuild
  /\ edits < MaxEdits
  /\ edits' = edits + 1
  /\ \E p \in Paths : \E st \in EditsOf(files[p]) :
       /\ files' = [files EXCEPT ![p] = st]
       /\ Cardinality(PresentPaths(files')) <= MaxFiles
  /\ last' = Last("edit", FALSE, <<>>, {}, {}, {}, 0, FALSE, last.cleanAfter, FALSE)
  /\ UNCHANGED <<cfg, manifestFile, contentFile, chunkFiles, produced, runs>>

\* the sizes updateFrontmatterDate may leave: a file that had no date grows
NewSizes(fs, order) ==
  {ns \in [RewrittenIn(fs, order) -> Stamps] :
     \A p \in DOMAIN ns : fs[p].date = NoDate => ns[p] # fs[p].size}

SeqToSet(q) == {q[k] : k \in 1..Len(q)}

\* buildStart with chunkByFolder off
BuildSingle ==
  /\ UNCHANGED notBuild
  /\ runs < MaxRuns
  /\ runs' = runs + 1
  /\ ~cfg.chunkByFolder
  /\ LET prev == loadPreviousManifest
     IN  IF ~checkForChanges(prev, collectMarkdownFilesWithMetadata(files))
           THEN /\ last' = Last("build", TRUE, prev, {}, {}, {}, 0, manifestFile.exists,
                                last.cleanAfter, last.cleanAfter)
                /\ UNCHANGED <<cfg, files, manifestFile, contentFile, chunkFiles, produced, edits>>
           ELSE \E compress \in BOOLEAN, order \in Orders(PresentPaths(files)) :
                \E newSizes \in NewSizes(files, order) :
                  LET result == processFiles(files, order, newSizes)
                  IN  /\ files' = FilesAfter(files, order, newSizes)
                      /\ manifestFile' = writeManifest(result.manifest, {}, FALSE)
                      /\ contentFile' = writeContent(contentFile, result.content, compress)
                      /\ produced' = Produce(result.content)
                      /\ last' = Last("build", FALSE, prev, {}, SeqToSet(order),
                                      {ArtifactName("manifest", <<>>, FALSE)} \cup
                                        (IF WritesContent(result.content)
                                           THEN {ArtifactName("content", <<>>, compress)}
                                           ELSE {}),
                                      result.errorCount, manifestFile.exists,
                                      last.cleanAfter, result.errorCount = 0)
                      /\ UNCHANGED <<cfg, chunkFiles, edits>>

\* buildStart with chunkByFolder on
BuildChunked ==
  /\ UNCHANGED notBuild
  /\ runs < MaxRuns
  /\ runs' = runs + 1
  /\ cfg.chunkByFolder
  /\ LET prev == loadPreviousManifest
         changedFolders == checkForFolderChanges(prev, files)
     IN  IF changedFolders = {}
           THEN /\ last' = Last("build", TRUE, prev, {}, {}, {}, 0, manifestFile.exists,
                                last.cleanAfter, last.cleanAfter)
                /\ UNCHANGED <<cfg, files, manifestFile, contentFile, chunkFiles, produced, edits>>
           ELSE \E compress \in BOOLEAN, order \in Orders(FilesOfFolders(files, changedFolders)) :
                \E newSizes \in NewSizes(files, order) :
                  LET errorCount == FoldersErrors(files, order, {})
                  IN  /\ files' = FilesAfter(files, order, newSizes)
                      /\ chunkFiles' = FoldersChunks(chunkFiles, files, order, newSizes, compress)
                      /\ manifestFile' = writeManifest(FoldersManifest(files, order, newSizes),
                                           DOMAIN collectFilesByFolder(files), TRUE)
                      /\ produced' = Produce(FilesContent(files, order, newSizes))
                      /\ last' = Last("build", FALSE, prev, changedFolders, SeqToSet(order),
                                      {ArtifactName("manifest", <<>>, FALSE)}
                                        \cup FoldersWrote(order, compress),
                                      errorCount, manifestFile.exists, last.cleanAfter,
                                      errorCount = 0 /\ SeqToSet(order) = PresentPaths(files))
                      /\ UNCHANGED <<cfg, contentFile, edits>>

\* handleHotUpdate with chunkByFolder off, past its test of the file name:
\* every file of the source is processed, manifest and content are written
HotSingleWrites ==
  /\ \E compress \in BOOLEAN, order \in Orders(PresentPaths(files)) :
     \E newSizes \in NewSizes(files, order) :
       LET result == processFiles(files, order, newSizes)
       IN  /\ files' = FilesAfter(files, order, newSizes)
           /\ manifestFile' = writeManifest(result.manifest, {}, FALSE)
           /\ contentFile' = writeContent(contentFile, result.content, compress)
           /\ produced' = Produce(result.content)
           /\ last' = Last("hot", FALSE, loadPreviousManifest, {}, SeqToSet(order),
                           {ArtifactName("manifest", <<>>, FALSE)} \cup
                             (IF WritesContent(result.content)
                                THEN {ArtifactName("content", <<>>, compress)}
                                ELSE {}),
                           result.errorCount, manifestFile.exists, last.cleanAfter, FALSE)
           /\ UNCHANGED <<cfg, chunkFiles, edits>>

\* handleHotUpdate({ file }) with chunkByFolder off, for a markdown file of the source
HotUpdateSingle ==
  /\ UNCHANGED notBuild
  /\ runs < MaxRuns
  /\ runs' = runs + 1
  /\ ~cfg.chunkByFolder
  /\ \E file \in Paths : EndsWith(file, EXTENSION)
  /\ HotSingleWrites

\* globalManifest.filter(item => item.folder !== folder)
OtherFolders(manifest, folder) == SelectSeq(manifest, LAMBDA item : item.folder # folder)

\* handleHotUpdate with chunkByFolder on, past its test of the file name, for
\* a file whose path relative to the source has the directory `folder`
HotChunkedWrites(folder) ==
  /\ \E compress \in BOOLEAN :
     LET allFolders == collectFilesByFolder(files)
         missing == {folder} \ DOMAIN allFolders
     IN  \E order \in Orders(FilesOfFolders(files, {folder})) :
         \E newSizes \in NewSizes(files, order) :
           LET updatedManifest == OtherFolders(loadPreviousManifest, folder)
                                    \o FoldersManifest(files, order, newSizes)
           IN  /\ files' = FilesAfter(files, order, newSizes)
               /\ chunkFiles' = FoldersChunks(chunkFiles, files, order, newSizes, compress)
               /\ manifestFile' = writeManifest(sortManifest(updatedManifest),
                                                DOMAIN allFolders, TRUE)
               /\ produced' = Produce(FilesContent(files, order, newSizes))
               /\ last' = Last("hot", FALSE, loadPreviousManifest, {folder}, SeqToSet(order),
                               {ArtifactName("manifest", <<>>, FALSE)}
                                 \cup FoldersWrote(order, compress),
                               FoldersErrors(files, order, missing), manifestFile.exists,
                               last.cleanAfter, FALSE)
               /\ UNCHANGED <<cfg, contentFile, edits>>

\* handleHotUpdate({ file }) with chunkByFolder on, for a markdown file of the source
HotUpdateChunked ==
  /\ UNCHANGED notBuild
  /\ runs < MaxRuns
  /\ runs' = runs + 1
  /\ cfg.chunkByFolder
  /\ \E file \in Paths : HotChunkedWrites(GroupFolder(file))

\* chunkByFolder on (the default)
Next ==
  \/ Edit
  \/ BuildChunked
  \/ HotUpdateChunked

\* chunkByFolder off
NextSingle ==
  \/ Edit
  \/ BuildSingle
  \/ HotUpdateSingle

\* buildStart runs only, in either mode
NextBuilds ==
  \/ Edit
  \/ BuildSingle
  \/ BuildChunked

(***************************************************************************)
(* The runtime (markdown-data.ts) with empty caches, reading the artifacts *)
(* on disk.                                                                *)
(***************************************************************************)
\* the asset behind a URL: a written artifact is served and parses
AssetState(artifact) == IF artifact.exists THEN "valid" ELSE "missing"

\* fetchContent on the compressed and the uncompressed file of one artifact
FetchArtifact(pair) ==
  FetchContentResult(AssetState(pair.gz), AssetState(pair.plain),
                     pair.gz.entries, pair.plain.entries)

\* getGlobalManifest: the manifest is only ever written uncompressed; on a
\* failed fetch { documents: [], _buildMode: 'single' }
getGlobalManifest ==
  LET fetched == FetchArtifact([gz |-> NoArtifact,
                                plain |-> [exists |-> manifestFile.exists,
                                           entries |-> manifestFile]])
  IN  IF fetched.ok THEN fetched.data ELSE NoManifest

\* getMarkdownContent: {} in chunked mode and on a failed fetch
getMarkdownContent ==
  LET fetched == FetchArtifact(contentFile)
  IN  IF getGlobalManifest._buildMode = "chunked" THEN <<>>
      ELSE IF fetched.ok THEN fetched.data ELSE <<>>

\* loadFolderContent: {} on a failed fetch
loadFolderContent(folder) ==
  LET fetched == FetchArtifact(chunkFiles[FolderKey(folder)])
  IN  IF fetched.ok THEN fetched.data ELSE <<>>

\* getMarkdownDocument(slug); NoContent stands for null
getMarkdownDocument(slug) ==
  LET documents == getGlobalManifest.documents
      hits == {k \in 1..Len(documents) : documents[k].slug = slug}
      docMeta == documents[CHOOSE k \in hits : \A j \in hits : k <= j]
  IN  IF getGlobalManifest._buildMode = "chunked"
        THEN IF hits = {} THEN NoContent
             ELSE LET folderContent == loadFolderContent(FolderOrRoot(docMeta.folder))
                  IN  IF slug \in DOMAIN folderContent THEN folderContent[slug]
                      ELSE NoContent
        ELSE IF slug \in DOMAIN getMarkdownContent THEN getMarkdownContent[slug]
             ELSE NoContent

\* hasMarkdownDocument(slug), from empty caches
hasMarkdownDocument(slug) ==
  IF getGlobalManifest._buildMode = "chunked"
    THEN \E k \in 1..Len(getGlobalManifest.documents) : getGlobalManifest.documents[k].slug = slug
    ELSE slug \in DOMAIN getMarkdownContent

(***************************************************************************)
(* The runtime with its caches: getMarkdownManifest, getMarkdownContent,   *)
(* getMarkdownDocument and clearMarkdownCache, while the deployed          *)
(* artifacts change.  A cache is null (NoCache) or holds data.             *)
(***************************************************************************)
NoCache == [set |-> FALSE, data |-> <<>>]
Cached(data) == [set |-> TRUE, data |-> data]

\* a fetch issued for an artifact: the manifest, the content or a folder chunk
FetchOf(kind, folder) == [kind |-> kind, folder |-> folder]

\* fetchContent for the manifest asset
FetchManifest ==
  FetchArtifact([gz |-> NoArtifact,
                 plain |-> [exists |-> manifestFile.exists, entries |-> manifestFile]])

\* globalManifest.documents.map(({ _mtime, _size, ...item }) => item)
CleanManifest(documents) ==
  [k \in 1..Len(documents) |->
     [slug |-> documents[k].slug, path |-> documents[k].path,
      folder |-> documents[k].folder, date |-> documents[k].date]]

\* getGlobalManifest with globalManifestCache = g: what it returns, the cache
\* it leaves (set on a successful fetch only) and the fetches it issues
GlobalResult(g) == IF g.set THEN g.data ELSE getGlobalManifest
GlobalCacheAfter(g) ==
  IF g.set THEN g ELSE IF FetchManifest.ok THEN Cached(FetchManifest.data) ELSE NoCache
GlobalFetches(g) == IF g.set THEN {} ELSE {FetchOf("manifest", NoFolder)}

\* getMarkdownManifest with manifestCache = m: the cache is returned when it
\* is not null; otherwise the cleaned documents are stored in it and returned
ManifestResult(m, g) ==
  IF m.set THEN m.data ELSE CleanManifest(GlobalResult(g).documents)
ManifestCacheAfter(m, g) == Cached(ManifestResult(m, g))
ManifestFetches(m, g) == IF m.set THEN {} ELSE GlobalFetches(g)

\* getMarkdownContent with contentCache = c
ContentResult(g, c) ==
  IF GlobalResult(g)._buildMode = "chunked" THEN <<>>
  ELSE IF c.set THEN c.data
  ELSE IF FetchArtifact(contentFile).ok THEN FetchArtifact(contentFile).data
  ELSE <<>>
ContentCacheAfter(g, c) ==
  IF GlobalResult(g)._buildMode = "chunked" \/ c.set THEN c
  ELSE IF FetchArtifact(contentFile).ok THEN Cached(FetchArtifact(contentFile).data)
  ELSE NoCache
ContentFetches(g, c) ==
  GlobalFetches(g) \cup
    (IF GlobalResult(g)._buildMode = "chunked" \/ c.set THEN {}
     ELSE {FetchOf("content", NoFolder)})

\* loadFolderContent with folderContentCache = f
FolderResult(f, folder) ==
  IF f[folder].set THEN f[folder].data ELSE loadFolderContent(folder)
FolderCacheAfter(f, folder) ==
  IF f[folder].set THEN f
  ELSE IF FetchArtifact(chunkFiles[FolderKey(folder)]).ok
    THEN [f EXCEPT ![folder] = Cached(FetchArtifact(chunkFiles[FolderKey(folder)]).data)]
  ELSE f
FolderFetches(f, folder) == IF f[folder].set THEN {} ELSE {FetchOf("chunk", folder)}

\* manifest.find(doc => doc.slug === slug): its position, 0 when there is none
FindSlug(manifest, slug) ==
  LET hits == {k \in 1..Len(manifest) : manifest[k].slug = slug}
  IN  IF hits = {} THEN 0 ELSE CHOOSE k \in hits : \A j \in hits : k <= j

\* getMarkdownDocument(slug) with the caches g, m, c, f; NoContent is null
DocumentFolder(slug, g, m) ==
  LET manifest == ManifestResult(m, GlobalCacheAfter(g))
  IN  FolderOrRoot(manifest[FindSlug(manifest, slug)].folder)
DocumentResult(slug, g, m, c, f) ==
  IF GlobalResult(g)._buildMode = "chunked"
    THEN IF FindSlug(ManifestResult(m, GlobalCacheAfter(g)), slug) = 0 THEN NoContent
         ELSE LET folderContent == FolderResult(f, DocumentFolder(slug, g, m))
              IN  IF slug \in DOMAIN folderContent THEN folderContent[slug] ELSE NoContent
    ELSE LET content == ContentResult(GlobalCacheAfter(g), c)
         IN  IF slug \in DOMAIN content THEN content[slug] ELSE NoContent
DocumentFetches(slug, g, m, c, f) ==
  GlobalFetches(g) \cup
    (IF GlobalResult(g)._buildMode = "chunked"
       THEN ManifestFetches(m, GlobalCacheAfter(g)) \cup
              (IF FindSlug(ManifestResult(m, GlobalCacheAfter(g)), slug) = 0 THEN {}
               ELSE FolderFetches(f, DocumentFolder(slug, g, m)))
       ELSE ContentFetches(GlobalCacheAfter(g), c))

\* what has been fetched successfully since the caches were last cleared
NothingFetched ==
  [manifest |-> NoCache, content |-> NoCache, chunks |-> [fo \in Folders |-> NoCache]]
\* the last call: its name, argument, result and fetches, and whether no
\* call was made between the last clearMarkdownCache and it
NoCall == [op |-> "none", slug |-> <<>>, result |-> <<>>, fetched |-> {}, afterClear |-> FALSE]
Call(op, slug, result, fetched) ==
  [op |-> op, slug |-> slug, result |-> result, fetched |-> fetched,
   afterClear |-> \/ rtCall.op = "clearMarkdownCache"
                  \/ (rtCall.op = "deploy" /\ rtCall.afterClear)]

RuntimeIdle ==
  /\ globalManifestCache = NoCache
  /\ manifestCache = NoCache
  /\ contentCache = NoCache
  /\ folderContentCache = [fo \in Folders |-> NoCache]
  /\ rtFetched = NothingFetched
  /\ rtCall = NoCall

\* rtFetched after a call that issued the fetches in `fetches`
FetchedAfter(fetches) ==
  [manifest |-> IF FetchOf("manifest", NoFolder) \in fetches /\ FetchManifest.ok
                  THEN Cached(FetchManifest.data) ELSE rtFetched.manifest,
   content |-> IF FetchOf("content", NoFolder) \in fetches /\ FetchArtifact(contentFile).ok
                 THEN Cached(FetchArtifact(contentFile).data) ELSE rtFetched.content,
   chunks |-> [fo \in Folders |->
                 IF FetchOf("chunk", fo) \in fetches
                      /\ FetchArtifact(chunkFiles[FolderKey(fo)]).ok
                   THEN Cached(FetchArtifact(chunkFiles[FolderKey(fo)]).data)
                   ELSE rtFetched.chunks[fo]]]

\* the deployed site: version v of a source tree (x.md, and from version 2 on
\* a/b/y.md), built without compression; version 0 is no artifact at all
RtTree(v) ==
  [p \in Paths |->
     IF p = P_x \/ (p = P_y /\ v >= 2)
       THEN [present |-> TRUE, mtime |-> v, size |-> 1, body |-> v, date |-> v]
       ELSE Absent]
RtOrder(v) == CHOOSE order \in Orders(PresentPaths(RtTree(v))) : TRUE
RtNoSizes == [p \in {} |-> 1]
RtManifestFile(v) ==
  IF v = 0 THEN NoManifest
  ELSE IF cfg.chunkByFolder
    THEN writeManifest(FoldersManifest(RtTree(v), RtOrder(v), RtNoSizes),
                       DOMAIN collectFilesByFolder(RtTree(v)), TRUE)
  ELSE writeManifest(FilesManifest(RtTree(v), RtOrder(v), RtNoSizes), {}, FALSE)
RtContentFile(v) ==
  IF v = 0 \/ cfg.chunkByFolder THEN NoPair
  ELSE writeContent(NoPair, FilesContent(RtTree(v), RtOrder(v), RtNoSizes), FALSE)
RtChunkFiles(v) ==
  IF v = 0 \/ ~cfg.chunkByFolder THEN [k \in ChunkKeys |-> NoPair]
  ELSE FoldersChunks([k \in ChunkKeys |-> NoPair], RtTree(v), RtOrder(v), RtNoSizes, FALSE)

\* the slugs the runtime is asked for
RtSlugs == {SlugOf(P_x), SlugOf(P_y), SlugOf(P_z)}

RuntimeInit ==
  /\ cfg \in {c \in Configs : ~c.updateDate /\ ~c.incrementalByFolder}
  /\ files = [p \in Paths |-> Absent]
  /\ manifestFile = NoManifest
  /\ contentFile = NoPair
  /\ chunkFiles = [k \in ChunkKeys |-> NoPair]
  /\ produced = [sl \in Slugs |-> NoContent]
  /\ last = NoStep
  /\ edits = 0
  /\ runs = 0
  /\ RuntimeIdle

\* the artifacts of a version are deployed or withdrawn: the manifest, the
\* content (file or chunks), or both
Deploy ==
  /\ UNCHANGED notRuntime
  /\ \E v \in 0..MaxStamp, part \in {"manifest", "content", "all"} :
       /\ manifestFile' = IF part = "content" THEN manifestFile ELSE RtManifestFile(v)
       /\ contentFile' = IF part = "manifest" THEN contentFile ELSE RtContentFile(v)
       /\ chunkFiles' = IF part = "manifest" THEN chunkFiles ELSE RtChunkFiles(v)
  /\ rtCall' = Call("deploy", <<>>, <<>>, {})
  /\ UNCHANGED <<cfg, files, produced, last, edits, runs>>
  /\ UNCHANGED <<globalManifestCache, manifestCache, contentCache, folderContentCache, rtFetched>>

\* getMarkdownManifest(assets)
GetMarkdownManifest ==
  /\ UNCHANGED notRuntime
  /\ UNCHANGED buildVars
  /\ manifestCache' = ManifestCacheAfter(manifestCache, globalManifestCache)
  /\ globalManifestCache' =
       IF manifestCache.set THEN globalManifestCache ELSE GlobalCacheAfter(globalManifestCache)
  /\ rtFetched' = FetchedAfter(ManifestFetches(manifestCache, globalManifestCache))
  /\ rtCall' = Call("getMarkdownManifest", <<>>,
                    ManifestResult(manifestCache, globalManifestCache),
                    ManifestFetches(manifestCache, globalManifestCache))
  /\ UNCHANGED <<contentCache, folderContentCache>>

\* getMarkdownContent(assets)
GetMarkdownContent ==
  /\ UNCHANGED notRuntime
  /\ UNCHANGED buildVars
  /\ globalManifestCache' = GlobalCacheAfter(globalManifestCache)
  /\ contentCache' = ContentCacheAfter(globalManifestCache, contentCache)
  /\ rtFetched' = FetchedAfter(ContentFetches(globalManifestCache, contentCache))
  /\ rtCall' = Call("getMarkdownContent", <<>>,
                    ContentResult(globalManifestCache, contentCache),
                    ContentFetches(globalManifestCache, contentCache))
  /\ UNCHANGED <<manifestCache, folderContentCache>>

\* getMarkdownDocument(slug, assets)
GetMarkdownDocument ==
  /\ UNCHANGED notRuntime
  /\ UNCHANGED buildVars
  /\ \E slug \in RtSlugs :
       LET g == globalManifestCache
           m == manifestCache
           c == contentCache
           f == folderContentCache
           chunked == GlobalResult(g)._buildMode = "chunked"
           found == FindSlug(ManifestResult(m, GlobalCacheAfter(g)), slug) # 0
       IN  /\ globalManifestCache' = GlobalCacheAfter(g)
           /\ manifestCache' = IF chunked THEN ManifestCacheAfter(m, GlobalCacheAfter(g)) ELSE m
           /\ contentCache' = IF chunked THEN c ELSE ContentCacheAfter(GlobalCacheAfter(g), c)
           /\ folderContentCache' =
                IF chunked /\ found THEN FolderCacheAfter(f, DocumentFolder(slug, g, m)) ELSE f
           /\ rtFetched' = FetchedAfter(DocumentFetches(slug, g, m, c, f))
           /\ rtCall' = Call("getMarkdownDocument", slug, DocumentResult(slug, g, m, c, f),
                             DocumentFetches(slug, g, m, c, f))

\* clearMarkdownCache(): each cache is set to null, the folder cache is cleared
ClearCacheKept(cache) == cache
ClearCache(cache) == NoCache
ClearMarkdownCache ==
  /\ UNCHANGED notRuntime
  /\ UNCHANGED buildVars
  /\ manifestCache' = ClearCache(manifestCache)
  /\ globalManifestCache' = ClearCache(globalManifestCache)
  /\ contentCache' = ClearCache(contentCache)
  /\ folderContentCache' = [fo \in Folders |-> ClearCache(folderContentCache[fo])]
  /\ rtFetched' = NothingFetched
  /\ rtCall' = Call("clearMarkdownCache", <<>>, <<>>, {})

NextRuntime ==
  \/ Deploy
  \/ GetMarkdownManifest
  \/ GetMarkdownContent
  \/ GetMarkdownDocument
  \/ ClearMarkdownCache

(***************************************************************************)
(* The route loader markdownSlugLoader({ validatedSlug, request, ASSETS }). *)
(***************************************************************************)
\* what the loader throws or returns
NotFound == [thrown |-> TRUE, status |-> 404, value |-> <<>>]
Returned(value) == [thrown |-> FALSE, status |-> 0, value |-> value]

\* { manifest, selectedDoc: validatedSlug, document: null, loading: true }
LoadingState(manifest, slug) ==
  [kind |-> "page", manifest |-> manifest, selectedDoc |-> slug, document |-> NoContent,
   loading |-> TRUE]

\* { ...doc.frontmatter, formattedDate }: the date formatted when there is one
EnhancedFrontmatter(doc) ==
  [date |-> doc.frontmatter,
   formattedDate |-> IF doc.frontmatter # NoDate THEN <<"en-US", doc.frontmatter>> ELSE <<>>]

\* the body of the try block, given the manifest and the document it loaded
LoaderTry(slug, isApiCall, manifest, doc) ==
  IF FindSlug(manifest, slug) = 0 THEN NotFound
  ELSE IF doc = NoContent
    THEN IF isApiCall THEN NotFound ELSE Returned(LoadingState(manifest, slug))
  ELSE IF isApiCall
    THEN Returned([kind |-> "json", content |-> doc.content,
                   frontmatter |-> EnhancedFrontmatter(doc), slug |-> slug])
  ELSE Returned([kind |-> "page", manifest |-> manifest, selectedDoc |-> slug,
                 document |-> [content |-> doc.content,
                               frontmatter |-> EnhancedFrontmatter(doc)],
                 loading |-> FALSE])

\* the catch block without the re-throw of a 404
LoaderCatchNoRethrow(outcome, slug, isApiCall, manifest) ==
  IF ~outcome.thrown THEN outcome
  ELSE IF ~isApiCall THEN Returned(LoadingState(manifest, slug))
  ELSE outcome

\* the catch block: a 404 Response is thrown again, any other error becomes
\* the loading state of a UI request and is thrown again for an API call
LoaderCatch(outcome, slug, isApiCall, manifest) ==
  IF ~outcome.thrown THEN outcome
  ELSE IF outcome.status = 404 THEN outcome
  ELSE IF ~isApiCall THEN Returned(LoadingState(manifest, slug))
  ELSE outcome

MarkdownSlugLoader ==
  /\ UNCHANGED notRuntime
  /\ UNCHANGED buildVars
  /\ \E slug \in RtSlugs, isApiCall \in BOOLEAN :
       LET g == globalManifestCache
           m == manifestCache
           c == contentCache
           f == folderContentCache
           manifest == ManifestResult(m, g)
           g1 == IF m.set THEN g ELSE GlobalCacheAfter(g)
           m1 == ManifestCacheAfter(m, g)
           docExists == FindSlug(manifest, slug) # 0
           chunked == GlobalResult(g1)._buildMode = "chunked"
           found == FindSlug(ManifestResult(m1, GlobalCacheAfter(g1)), slug) # 0
           doc == IF docExists THEN DocumentResult(slug, g1, m1, c, f) ELSE NoContent
           fetches == ManifestFetches(m, g) \cup
                        (IF docExists THEN DocumentFetches(slug, g1, m1, c, f) ELSE {})
       IN  /\ manifestCache' = m1
           /\ globalManifestCache' = IF docExists THEN GlobalCacheAfter(g1) ELSE g1
           /\ contentCache' =
                IF docExists /\ ~chunked THEN ContentCacheAfter(GlobalCacheAfter(g1), c) ELSE c
           /\ folderContentCache' =
                IF docExists /\ chunked /\ found
                  THEN FolderCacheAfter(f, DocumentFolder(slug, g1, m1)) ELSE f
           /\ rtFetched' = FetchedAfter(fetches)
           /\ rtCall' = Call("markdownSlugLoader", slug,
                             [isApiCall |-> isApiCall, manifest |-> manifest, document |-> doc,
                              outcome |-> LoaderCatch(LoaderTry(slug, isApiCall, manifest, doc),
                                                      slug, isApiCall, m1.data)],
                             fetches)

NextLoader ==
  \/ Deploy
  \/ ClearMarkdownCache
  \/ MarkdownSlugLoader

(***************************************************************************)
(* Functions of the program, applied to one argument drawn from a bounded  *)
(* set: fnArgs is the argument, fnResult the result once fnPc is "done".   *)
(***************************************************************************)
FnIdle == fnArgs = <<>> /\ fnResult = <<>> /\ fnPc = "idle"

\* all sequences over S of length 0..n
RECURSIVE SeqsUpTo(_, _)
SeqsUpTo(S, n) ==
  IF n = 0 THEN {<<>>}
  ELSE LET shorter == SeqsUpTo(S, n - 1)
       IN  shorter \cup {Append(q, e) : q \in {r \in shorter : Len(r) = n - 1}, e \in S}

(***************************************************************************)
(* processMarkdownFile(filePath, purifyHtml, highlighter).  A markdown     *)
(* body is a sequence of blocks: a paragraph, raw HTML with a script       *)
(* element, a fenced code block in a language the highlighter knows, and   *)
(* one in a language it does not know.                                     *)
(***************************************************************************)
Blocks == {"para", "html", "fence", "fenceX"}

\* marked.parse: raw HTML is passed through, a fence becomes <pre><code>
MarkedParse(markdown) ==
  [k \in 1..Len(markdown) |->
     CASE markdown[k] = "para" -> "p"
       [] markdown[k] = "html" -> "script"
       [] markdown[k] = "fence" -> "pre"
       [] markdown[k] = "fenceX" -> "preX"]

\* DOMPurify.sanitize(html, DOMPURIFY_CONFIG): a forbidden element is removed
\* and its text kept (KEEP_CONTENT), a style attribute is dropped
Sanitize(html) ==
  [k \in 1..Len(html) |->
     IF html[k] = "script" THEN "text"
     ELSE IF html[k] = "shiki" THEN "pre"
     ELSE html[k]]

\* highlightCodeBlocks: every code block is replaced by the highlighter's
\* HTML; a language the highlighter does not know is an error
HighlightFails(html) == \E k \in 1..Len(html) : html[k] = "preX"
highlightCodeBlocks(html) ==
  [k \in 1..Len(html) |-> IF html[k] = "pre" THEN "shiki" ELSE html[k]]

processMarkdownFile(markdown, purifyHtml, highlighter) ==
  LET htmlContent == MarkedParse(markdown)
      sanitizedContent == IF purifyHtml THEN Sanitize(htmlContent) ELSE htmlContent
  IN  IF highlighter
        THEN IF HighlightFails(htmlContent) THEN [content |-> <<>>, error |-> TRUE]
             ELSE [content |-> highlightCodeBlocks(htmlContent), error |-> FALSE]
        ELSE [content |-> sanitizedContent, error |-> FALSE]

ProcessInit ==
  /\ fnArgs \in [markdown : SeqsUpTo(Blocks, MaxBlocks), purifyHtml : BOOLEAN,
                 highlighter : BOOLEAN]
  /\ fnResult = <<>>
  /\ fnPc = "call"

ProcessApply ==
  /\ UNCHANGED notFn
  /\ fnPc = "call"
  /\ fnResult' = processMarkdownFile(fnArgs.markdown, fnArgs.purifyHtml, fnArgs.highlighter)
  /\ fnPc' = "done"
  /\ UNCHANGED fnArgs

NextProcess ==
  \/ ProcessApply

(***************************************************************************)
(* validateDocumentSlug(slug): the valibot pipe string, trim, minLength(1),*)
(* regex, and the three checks.  A string is the sequence of its           *)
(* characters; an input that is no string is a number here.                *)
(***************************************************************************)
SlugAlphabet == {"a", "Z", "7", "-", "_", "/", ".", " ", "!"}
Letters == {"a", "Z"}
Digits == {"7"}

\* v.trim(): leading and trailing white space is removed
Trim(str) ==
  LET solid == {k \in 1..Len(str) : str[k] # " "}
      lo == CHOOSE k \in solid : \A j \in solid : k <= j
      hi == CHOOSE k \in solid : \A j \in solid : j <= k
  IN  IF solid = {} THEN <<>> ELSE SubSeq(str, lo, hi)

\* /^[a-zA-Z0-9-_/]+$/ (the faulty variant has lost its anchors)
MatchesSlugRegexUnanchored(str) ==
  \E k \in 1..Len(str) : str[k] \in Letters \cup Digits \cup {"-", "_", "/"}
MatchesSlugRegex(str) ==
  /\ Len(str) >= 1
  /\ \A k \in 1..Len(str) : str[k] \in Letters \cup Digits \cup {"-", "_", "/"}

\* slug.includes('..')
IncludesDots(str) == \E k \in 1..(Len(str) - 1) : str[k] = "." /\ str[k + 1] = "."
\* slug.startsWith('/'), slug.endsWith('/')
StartsWithSlash(str) == Len(str) >= 1 /\ str[1] = "/"
EndsWithSlash(str) == Len(str) >= 1 /\ str[Len(str)] = "/"

\* v.parse(documentSlugSchema, slug): the first issue, or none
SlugIssue(input) ==
  IF input.type # "string" THEN "string"
  ELSE IF Len(Trim(input.value)) < 1 THEN "minLength"
  ELSE IF ~MatchesSlugRegex(Trim(input.value)) THEN "regex"
  ELSE IF IncludesDots(Trim(input.value)) THEN "traversal"
  ELSE IF StartsWithSlash(Trim(input.value)) THEN "leading"
  ELSE IF EndsWithSlash(Trim(input.value)) THEN "trailing"
  ELSE "none"

\* the validated slug, or the Response thrown
validateDocumentSlug(input) ==
  IF SlugIssue(input) = "none"
    THEN [returned |-> TRUE, value |-> Trim(input.value), status |-> 200]
    ELSE [returned |-> FALSE, value |-> <<>>, status |-> 400]

SlugInputs ==
  [type : {"string"}, value : SeqsUpTo(SlugAlphabet, MaxSlugLen)]
    \cup [type : {"number"}, value : {<<>>}]

SlugInit ==
  /\ fnArgs \in SlugInputs
  /\ fnResult = <<>>
  /\ fnPc = "call"

SlugApply ==
  /\ UNCHANGED notFn
  /\ fnPc = "call"
  /\ fnResult' = validateDocumentSlug(fnArgs)
  /\ fnPc' = "done"
  /\ UNCHANGED fnArgs

NextSlug ==
  \/ SlugApply

(***************************************************************************)
(* The manifest record of one file with any frontmatter: parseFrontmatter  *)
(* yields a string for each "key: value" line, whatever the key.           *)
(***************************************************************************)
FrontmatterKeys == {"title", "date", "slug", "path", "_mtime"}
FrontmatterValue == <<"f">>
Frontmatters == UNION {[keys -> {FrontmatterValue}] : keys \in SUBSET FrontmatterKeys}

\* { slug, path: relPath, folder, _mtime, _size, ...validFrontmatter }: a key
\* of the spread replaces the one written before it
RecordOf(relPath, metadata, frontmatter) ==
  LET own == [slug |-> SlugOf(relPath), path |-> relPath, folder |-> RecordFolder(relPath),
              _mtime |-> metadata.mtime, _size |-> metadata.size]
  IN  [key \in DOMAIN own \cup DOMAIN frontmatter |->
         IF key \in DOMAIN frontmatter THEN frontmatter[key] ELSE own[key]]

RecordInit ==
  /\ fnArgs \in [relPath : {P_x, P_y}, metadata : [mtime : Stamps, size : Stamps],
                 frontmatter : Frontmatters]
  /\ fnResult = <<>>
  /\ fnPc = "call"

RecordApply ==
  /\ UNCHANGED notFn
  /\ fnPc = "call"
  /\ fnResult' = RecordOf(fnArgs.relPath, fnArgs.metadata, fnArgs.frontmatter)
  /\ fnPc' = "done"
  /\ UNCHANGED fnArgs

NextRecord ==
  \/ RecordApply

(***************************************************************************)
(* sortManifest(manifest) on records with a date and a title, either of    *)
(* which the frontmatter may lack.                                         *)
(***************************************************************************)
NoTitle == <<>>
Titles == {NoTitle, <<"a">>, <<"b">>}

\* the record of a file whose frontmatter holds a title and a date, or neither
TitledRecord(relPath, date, title) ==
  [slug |-> SlugOf(relPath), path |-> relPath, folder |-> RecordFolder(relPath),
   _mtime |-> 1, _size |-> 1, date |-> date, title |-> title]

SortRecords == {TitledRecord(p, date, title) : p \in Paths, date \in {NoDate} \cup Stamps, title \in Titles}

\* the manifests handed to sortManifest: records of different files, in any order
SortInputs ==
  {q \in SeqsUpTo(SortRecords, MaxRecords) :
     /\ Len(q) >= 1
     /\ \A i, j \in 1..Len(q) : i # j => q[i].slug # q[j].slug}

SortInit ==
  /\ fnArgs \in SortInputs
  /\ fnResult = <<>>
  /\ fnPc = "call"

SortApply ==
  /\ UNCHANGED notFn
  /\ fnPc = "call"
  /\ fnResult' = sortManifest(fnArgs)
  /\ fnPc' = "done"
  /\ UNCHANGED fnArgs

NextSort ==
  \/ SortApply

(***************************************************************************)
(* processChangedFiles(files) as a function of its input: for each file    *)
(* its metadata, whether its processing throws, and its frontmatter; and   *)
(* the order in which the concurrent handlers finish.                      *)
(***************************************************************************)
EntryFrontmatters == {fm \in Frontmatters : DOMAIN fm \subseteq {"title", "slug"}}
Entries ==
  UNION {[paths -> [metadata : {Metadata(1, 1)}, fails : BOOLEAN, frontmatter : EntryFrontmatters]] :
           paths \in {ps \in SUBSET Paths : ps # {} /\ Cardinality(ps) <= MaxFiles}}

\* the handlers that reach manifest.push, in the order they finish
EntriesOk(entries, order) == SelectSeq(order, LAMBDA p : ~entries[p].fails)

\* manifest.push(record) and content[slug] = { frontmatter, content: html } per
\* handler that does not throw (the html of a file stands as its path), errorCount++
\* per handler that throws; then sortManifest and processedCount: manifest.length
processChangedFiles(entries, order) ==
  LET ok == EntriesOk(entries, order)
      manifest == [k \in 1..Len(ok) |->
                     RecordOf(ok[k], entries[ok[k]].metadata, entries[ok[k]].frontmatter)]
  IN  [manifest |-> sortManifest(manifest),
       content |-> [sl \in {SlugOf(ok[k]) : k \in 1..Len(ok)} |->
                      LET q == CHOOSE q \in DOMAIN entries : SlugOf(q) = sl
                      IN  [frontmatter |-> entries[q].frontmatter, content |-> q]],
       processedCount |-> Len(manifest),
       errorCount |-> Len(order) - Len(ok)]

EntriesInit ==
  /\ fnArgs \in UNION {[entries : {entries}, order : Orders(DOMAIN entries)] : entries \in Entries}
  /\ fnResult = <<>>
  /\ fnPc = "call"

EntriesApply ==
  /\ UNCHANGED notFn
  /\ fnPc = "call"
  /\ fnResult' = processChangedFiles(fnArgs.entries, fnArgs.order)
  /\ fnPc' = "done"
  /\ UNCHANGED fnArgs

NextEntries ==
  \/ EntriesApply

(***************************************************************************)
(* handleHotUpdate({ file, server }): the test of the file name, the       *)
(* writes, and the full-reload message.  The project is /p and the source  *)
(* option is "s", so the source directory is /p/s.                         *)
(***************************************************************************)
Cwd == <<"/", "p">>
Source == <<"s">>
\* path.join(process.cwd(), source)
DocsDir == Cwd \o <<"/">> \o Source

\* String.prototype.includes and startsWith
Includes(str, sub) ==
  \E i \in 1..(Len(str) - Len(sub) + 1) : SubSeq(str, i, i + Len(sub) - 1) = sub
StartsWith(str, prefix) ==
  Len(str) >= Len(prefix) /\ SubSeq(str, 1, Len(prefix)) = prefix

\* the files the watcher reports: the markdown files of the source, a text
\* file of the source, and markdown files of the directories /p/o and /p/so
InDir(dir, name) == dir \o <<"/">> \o name
HotFiles ==
  {InDir(DocsDir, p) : p \in Paths}
    \cup {InDir(DocsDir, <<"x", ".", "t">>),
          InDir(InDir(Cwd, <<"o">>), P_x),
          InDir(InDir(Cwd, <<"s", "o">>), P_x)}

\* path.relative(docsDir, file) for a file below the project directory
Relative(file) ==
  IF StartsWith(file, DocsDir \o <<"/">>)
    THEN SubSeq(file, Len(DocsDir) + 2, Len(file))
    ELSE <<".", ".">> \o SubSeq(file, Len(Cwd) + 1, Len(file))

\* file.includes(source) && file.endsWith(extension)
HotUpdateHandles(file) == Includes(file, Source) /\ EndsWith(file, EXTENSION)

NoMessage == [wrote |-> FALSE, sent |-> 0]

HotInit ==
  /\ fnArgs \in [file : HotFiles]
  /\ fnResult = NoMessage
  /\ fnPc = "call"

\* the handler up to the end of writeMarkdownFiles
HotUpdateWrite ==
  /\ UNCHANGED <<execVars, fetchVars, checkVars, runtimeVars>>
  /\ fnPc = "call"
  /\ HotUpdateHandles(fnArgs.file)
  /\ runs < MaxRuns
  /\ runs' = runs + 1
  /\ IF cfg.chunkByFolder
       THEN HotChunkedWrites(GroupFolder(Relative(fnArgs.file)))
       ELSE HotSingleWrites
  /\ fnResult' = [fnResult EXCEPT !.wrote = (last'.wrote # {})]
  /\ fnPc' = "written"
  /\ UNCHANGED fnArgs

\* server.ws.send({ type: 'full-reload' })
HotUpdateSend ==
  /\ UNCHANGED <<execVars, fetchVars, checkVars, runtimeVars>>
  /\ UNCHANGED buildVars
  /\ fnPc = "written"
  /\ fnResult' = [fnResult EXCEPT !.sent = @ + 1]
  /\ fnPc' = "done"
  /\ UNCHANGED fnArgs

\* the test of the file name fails: the handler returns
HotUpdateSkip ==
  /\ UNCHANGED <<execVars, fetchVars, checkVars, runtimeVars>>
  /\ UNCHANGED buildVars
  /\ fnPc = "call"
  /\ ~HotUpdateHandles(fnArgs.file)
  /\ fnPc' = "done"
  /\ UNCHANGED <<fnArgs, fnResult>>

\* the watcher reports the next file
HotUpdateCall ==
  /\ UNCHANGED <<execVars, fetchVars, checkVars, runtimeVars>>
  /\ UNCHANGED buildVars
  /\ fnPc = "done"
  /\ fnArgs' \in [file : HotFiles]
  /\ fnResult' = NoMessage
  /\ fnPc' = "call"

NextHot ==
  \/ HotUpdateWrite
  \/ HotUpdateSend
  \/ HotUpdateSkip
  \/ HotUpdateCall

(***************************************************************************)
(* Two handleHotUpdate runs with chunkByFolder on, for files of different  *)
(* folders, interleaved at their awaits: processChangedFolders, then       *)
(* loadPreviousManifest, then writeMarkdownFiles.                          *)
(***************************************************************************)
Runs == {1, 2}
NoRun == [fresh |-> <<>>, previous |-> <<>>]
RunFolder(run) == GroupFolder(fnArgs[run])

OverlapInit ==
  /\ fnArgs \in [Runs -> Paths]
  /\ \A run \in Runs : fnArgs[run] \in PresentPaths(files)
  /\ RunFolder(1) # RunFolder(2)
  /\ fnResult = [run \in Runs |-> NoRun]
  /\ fnPc = [run \in Runs |-> "call"]

\* const result = await processChangedFolders(changedFolders, allFolders)
RunProcess ==
  /\ UNCHANGED <<execVars, fetchVars, checkVars, runtimeVars>>
  /\ \E run \in Runs, compress \in BOOLEAN :
       /\ fnPc[run] = "call"
       /\ \E order \in Orders(FilesOfFolders(files, {RunFolder(run)})) :
          \E newSizes \in NewSizes(files, order) :
            /\ files' = FilesAfter(files, order, newSizes)
            /\ chunkFiles' = FoldersChunks(chunkFiles, files, order, newSizes, compress)
            /\ produced' = Produce(FilesContent(files, order, newSizes))
            /\ fnResult' = [fnResult EXCEPT ![run].fresh = FoldersManifest(files, order, newSizes)]
       /\ fnPc' = [fnPc EXCEPT ![run] = "processed"]
  /\ UNCHANGED <<cfg, manifestFile, contentFile, last, edits, runs, fnArgs>>

\* const globalManifest = await loadPreviousManifest()
RunLoad ==
  /\ UNCHANGED <<execVars, fetchVars, checkVars, runtimeVars>>
  /\ UNCHANGED buildVars
  /\ \E run \in Runs :
       /\ fnPc[run] = "processed"
       /\ fnResult' = [fnResult EXCEPT ![run].previous = loadPreviousManifest]
       /\ fnPc' = [fnPc EXCEPT ![run] = "loaded"]
  /\ UNCHANGED fnArgs

\* filter, push, collectFilesByFolder and writeMarkdownFiles(sortManifest(updatedManifest), {}, folderList)
RunWrite ==
  /\ UNCHANGED <<execVars, fetchVars, checkVars, runtimeVars>>
  /\ \E run \in Runs :
       /\ fnPc[run] = "loaded"
       /\ manifestFile' =
            writeManifest(sortManifest(OtherFolders(fnResult[run].previous, RunFolder(run))
                                         \o fnResult[run].fresh),
                          DOMAIN collectFilesByFolder(files), TRUE)
       /\ fnPc' = [fnPc EXCEPT ![run] = "done"]
  /\ UNCHANGED <<cfg, files, contentFile, chunkFiles, produced, last, edits, runs>>
  /\ UNCHANGED <<fnArgs, fnResult>>

NextOverlap ==
  \/ RunProcess
  \/ RunLoad
  \/ RunWrite

(***************************************************************************)
(* Specifications.                                                         *)
(***************************************************************************)
ExecInitAll == ExecInit /\ FetchIdle /\ CheckIdle /\ BuildIdle /\ RuntimeIdle /\ FnIdle
SpecExec == ExecInitAll /\ [][ExecNext]_vars

FetchInitAll == FetchInit /\ ExecIdle /\ CheckIdle /\ BuildIdle /\ RuntimeIdle /\ FnIdle
SpecFetch == FetchInitAll /\ [][FetchNext]_vars

CheckInitAll == CheckInit /\ ExecIdle /\ FetchIdle /\ BuildIdle /\ RuntimeIdle /\ FnIdle
SpecCheck == CheckInitAll /\ [][CheckNext]_vars

Init ==
  /\ BuildInit({c \in Configs : c.chunkByFolder})
  /\ ExecIdle /\ FetchIdle /\ CheckIdle /\ RuntimeIdle /\ FnIdle
Spec == Init /\ [][Next]_vars

InitSingle ==
  /\ BuildInit({c \in Configs : ~c.chunkByFolder})
  /\ ExecIdle /\ FetchIdle /\ CheckIdle /\ RuntimeIdle /\ FnIdle
SpecSingle == InitSingle /\ [][NextSingle]_vars

InitBuilds == BuildInit(Configs) /\ ExecIdle /\ FetchIdle /\ CheckIdle /\ RuntimeIdle /\ FnIdle
SpecBuilds == InitBuilds /\ [][NextBuilds]_vars

InitRuntime == RuntimeInit /\ ExecIdle /\ FetchIdle /\ CheckIdle /\ FnIdle
SpecRuntime == InitRuntime /\ [][NextRuntime]_vars

InitLoader == RuntimeInit /\ ExecIdle /\ FetchIdle /\ CheckIdle /\ FnIdle
SpecLoader == InitLoader /\ [][NextLoader]_vars

InitProcess == ProcessInit /\ ExecIdle /\ FetchIdle /\ CheckIdle /\ BuildIdle /\ RuntimeIdle
SpecProcess == InitProcess /\ [][NextProcess]_vars

InitSlug == SlugInit /\ ExecIdle /\ FetchIdle /\ CheckIdle /\ BuildIdle /\ RuntimeIdle
SpecSlug == InitSlug /\ [][NextSlug]_vars

InitSort == SortInit /\ ExecIdle /\ FetchIdle /\ CheckIdle /\ BuildIdle /\ RuntimeIdle
SpecSort == InitSort /\ [][NextSort]_vars

InitEntries == EntriesInit /\ ExecIdle /\ FetchIdle /\ CheckIdle /\ BuildIdle /\ RuntimeIdle
SpecEntries == InitEntries /\ [][NextEntries]_vars

InitHot == BuildInit(Configs) /\ HotInit /\ ExecIdle /\ FetchIdle /\ CheckIdle /\ RuntimeIdle
SpecHot == InitHot /\ [][NextHot]_vars

InitOverlap ==
  /\ BuildInit({c \in Configs : c.chunkByFolder}) /\ OverlapInit
  /\ ExecIdle /\ FetchIdle /\ CheckIdle /\ RuntimeIdle
SpecOverlap == InitOverlap /\ [][NextOverlap]_vars

InitRecord == RecordInit /\ ExecIdle /\ FetchIdle /\ CheckIdle /\ BuildIdle /\ RuntimeIdle
SpecRecord == InitRecord /\ [][NextRecord]_vars

(***************************************************************************)
(* Properties.                                                             *)
(***************************************************************************)

\* C1: after any sequence of buildStart and handleHotUpdate runs, no two
\* records in the documents list of the written global manifest have the
\* same slug.
C1_SlugsUnique ==
  \A j, k \in 1..Len(manifestFile.documents) :
    manifestFile.documents[j].slug = manifestFile.documents[k].slug => j = k

\* C2: after a chunked build completes, for every record of the written
\* manifest the chunk artifact of the record's folder ('root' when it has
\* none) holds an entry under the record's slug, and no other folder's chunk
\* artifact holds that slug.
C2_ContentInExactlyOneChunk ==
  (cfg.chunkByFolder /\ last.op = "build" /\ ~last.skipped) =>
    \A k \in 1..Len(manifestFile.documents) :
      LET doc == manifestFile.documents[k]
      IN  /\ doc.slug \in DOMAIN loadFolderContent(FolderOrRoot(doc.folder))
          /\ \A f \in manifestFile.chunkedFolders \ {FolderOrRoot(doc.folder)} :
               doc.slug \notin DOMAIN loadFolderContent(f)

\* C3: in chunked mode with incrementalByFolder, a buildStart that processes
\* some folders without error writes a manifest that holds the fresh records
\* of the changed folders and the previous records of every unchanged folder,
\* so that every markdown file of the source tree has a record.
C3_ManifestMerged ==
  (cfg.incrementalByFolder /\ last.op = "build" /\ ~last.skipped /\ last.errorCount = 0) =>
    LET documents == manifestFile.documents
        unchanged == DOMAIN collectFilesByFolder(files) \ last.changedFolders
    IN  /\ \A k \in 1..Len(last.prevDocs) :
             FolderOrRoot(last.prevDocs[k].folder) \in unchanged =>
               \E j \in 1..Len(documents) : documents[j] = last.prevDocs[k]
        /\ \A p \in PresentPaths(files) :
             \E j \in 1..Len(documents) : documents[j].path = p

\* C4: for any sequence of builds, whatever the compress setting of each, a
\* runtime started with empty caches returns from getMarkdownDocument(slug),
\* for every slug of the written manifest, the content that the most recent
\* build produced for that document.
C4_RuntimeReadsLatest ==
  \A k \in 1..Len(manifestFile.documents) :
    getMarkdownDocument(manifestFile.documents[k].slug)
      = produced[manifestFile.documents[k].slug]

\* C5: when a buildStart run has processed every file without error and no
\* source file was edited since, the next buildStart run (single mode, or
\* chunked mode with incrementalByFolder) detects no change, processes no
\* file and writes no artifact.
C5_SecondBuildSkips ==
  (last.op = "build" /\ last.cleanBefore
     /\ (~cfg.chunkByFolder \/ cfg.incrementalByFolder)) =>
    /\ last.skipped
    /\ last.processed = {}
    /\ last.wrote = {}

\* C6: checkForChanges reports no change exactly when the current paths are
\* the paths recorded in the previous manifest and every file's mtime and
\* size equal the recorded _mtime and _size; otherwise it reports a change.
C6_ChangedExactly ==
  ckResult # "none" =>
    (ckResult = "unchanged" <=>
       /\ DOMAIN ckCurrent = {ckPrevious[k].path : k \in 1..Len(ckPrevious)}
       /\ \A k \in 1..Len(ckPrevious) :
            /\ ckPrevious[k]._mtime = ckCurrent[ckPrevious[k].path].mtime
            /\ ckPrevious[k]._size = ckCurrent[ckPrevious[k].path].size)

C6_Witness ==
  /\ ckResult = "unchanged"
  /\ DOMAIN ckCurrent = CheckPaths

\* C7: in chunked mode with incrementalByFolder, buildStart processes a folder
\* and rewrites its chunk only if the folder is absent from the previous
\* manifest, or one of its files is new or differs in mtime or size, or its
\* file count differs; the chunk artifact of every other folder is left
\* unchanged.
C7_OnlyChangedFoldersRewritten ==
  [][(cfg.incrementalByFolder /\ runs' # runs /\ last'.op = "build") =>
       LET previous == last'.prevDocs
           recorded(f) == {previous[k].path : k \in
                             {j \in 1..Len(previous) : FolderOrRoot(previous[j].folder) = f}}
           current(f) == {p \in PresentPaths(files) : GroupFolder(p) = f}
       IN  /\ \A f \in last'.changedFolders :
                \/ recorded(f) = {}
                \/ \E p \in current(f) :
                     \/ p \notin recorded(f)
                     \/ \E k \in 1..Len(previous) :
                          /\ previous[k].path = p
                          /\ \/ previous[k]._mtime # files[p].mtime
                             \/ previous[k]._size # files[p].size
                \/ Cardinality(recorded(f)) # Cardinality(current(f))
           /\ \A f \in DOMAIN collectFilesByFolder(files) \ last'.changedFolders :
                chunkFiles'[FolderKey(f)] = chunkFiles[FolderKey(f)]]_vars

\* C8: while execConcurrently runs with limit >= 1, the handler invocations
\* started and not yet settled never number more than limit.
C8_InFlightWithinLimit == Cardinality(InFlight) <= exLimit

C8_Witness ==
  /\ exLimit >= 2
  /\ Cardinality(InFlight) = exLimit
  /\ \E i \in ExItemIds : Settled(i)

\* C9: fetchContent requests the .gz URL first, and the uncompressed URL only
\* after a compressed attempt that gave no parsed result; after a compressed
\* attempt that parsed, the uncompressed URL is not requested.
C9_CompressedFirst ==
  /\ Len(fcLog) <= 2
  /\ Len(fcLog) >= 1 => EndsWithGz(fcLog[1]) /\ fcLog[1] = GzUrl(fcUrl)
  /\ Len(fcLog) = 2 =>
       /\ ~EndsWithGz(fcLog[2]) /\ fcLog[2] = BaseUrl(fcUrl)
       /\ fcGzOk = "no"
  /\ fcGzOk = "yes" => Len(fcLog) = 1
  /\ fcPc \in {"plain", "returned", "thrown"} => Len(fcLog) >= 1

C9_Witness ==
  /\ fcPc = "returned"
  /\ fcGzOk = "yes"
  /\ assets[BaseUrl(fcUrl)] = "valid"
  /\ fcLog = <<GzUrl(fcUrl)>>

\* C10: fetchContent throws only when the compressed and the uncompressed
\* attempt both fail; with an uncompressed response that is ok and parses, a
\* failed compressed attempt is swallowed and the uncompressed JSON returned.
C10_ThrowsOnlyWhenBothFail ==
  fcPc \in {"returned", "thrown"} =>
    /\ fcPc = "thrown" =>
         assets[GzUrl(fcUrl)] # "valid" /\ assets[BaseUrl(fcUrl)] # "valid"
    /\ (assets[GzUrl(fcUrl)] # "valid" /\ assets[BaseUrl(fcUrl)] = "valid") =>
         fcPc = "returned" /\ fcResult = Parsed(BaseUrl(fcUrl))

C10_Witness ==
  /\ fcPc = "returned"
  /\ assets[GzUrl(fcUrl)] = "throws"
  /\ fcResult = Parsed(BaseUrl(fcUrl))

\* C11: once the manifest, the single-mode content file or a folder chunk has
\* been fetched successfully, every later getMarkdownManifest,
\* getMarkdownContent or getMarkdownDocument call that needs it issues no
\* fetch for it and returns the fetched data, until clearMarkdownCache.
C11_FetchedOnce ==
  [][LET was == rtFetched
         now == rtCall'
         single == was.manifest.data._buildMode = "single"
         at == FindSlug(was.manifest.data.documents, now.slug)
         folder == FolderOrRoot(was.manifest.data.documents[at].folder)
         entry(content) == IF now.slug \in DOMAIN content THEN content[now.slug] ELSE NoContent
     IN  (was.manifest.set /\ now.op \in {"getMarkdownManifest", "getMarkdownContent",
                                          "getMarkdownDocument"}) =>
           /\ FetchOf("manifest", NoFolder) \notin now.fetched
           /\ now.op = "getMarkdownManifest" =>
                now.result = CleanManifest(was.manifest.data.documents)
           /\ (now.op = "getMarkdownContent" /\ single /\ was.content.set) =>
                /\ FetchOf("content", NoFolder) \notin now.fetched
                /\ now.result = was.content.data
           /\ (now.op = "getMarkdownDocument" /\ single /\ was.content.set) =>
                /\ FetchOf("content", NoFolder) \notin now.fetched
                /\ now.result = entry(was.content.data)
           /\ (now.op = "getMarkdownDocument" /\ ~single /\ at # 0
                 /\ was.chunks[folder].set) =>
                /\ FetchOf("chunk", folder) \notin now.fetched
                /\ now.result = entry(was.chunks[folder].data)]_vars

\* C12: clearMarkdownCache empties the manifest, global-manifest, content and
\* folder-content caches; the first getMarkdownManifest, getMarkdownContent
\* or getMarkdownDocument call after it fetches from the assets again and
\* returns the artifacts as they are at that time.
C12_ClearRefetches ==
  /\ rtCall.op = "clearMarkdownCache" =>
       /\ manifestCache = NoCache /\ globalManifestCache = NoCache
       /\ contentCache = NoCache
       /\ \A fo \in Folders : folderContentCache[fo] = NoCache
  /\ (rtCall.afterClear /\ rtCall.op \in {"getMarkdownManifest", "getMarkdownContent",
                                          "getMarkdownDocument"}) =>
       /\ FetchOf("manifest", NoFolder) \in rtCall.fetched
       /\ rtCall.op = "getMarkdownManifest" =>
            rtCall.result = CleanManifest(getGlobalManifest.documents)
       /\ rtCall.op = "getMarkdownContent" =>
            /\ rtCall.result = getMarkdownContent
            /\ getGlobalManifest._buildMode = "single" =>
                 FetchOf("content", NoFolder) \in rtCall.fetched
       /\ rtCall.op = "getMarkdownDocument" =>
            /\ rtCall.result = getMarkdownDocument(rtCall.slug)
            /\ getGlobalManifest._buildMode = "single" =>
                 FetchOf("content", NoFolder) \in rtCall.fetched
            /\ rtCall.result # NoContent => rtCall.fetched # {FetchOf("manifest", NoFolder)}

C12_Witness ==
  /\ rtCall.afterClear
  /\ rtCall.op = "getMarkdownDocument"
  /\ rtCall.result = MakeContent(2, 2)
  /\ getGlobalManifest._buildMode = "chunked"
  /\ FetchOf("chunk", RootFolder) \in rtCall.fetched

\* C13: when purifyHtml is true, the HTML stored for a document has passed
\* through the sanitizer, whether or not a syntax highlighter is configured:
\* it holds nothing that the sanitizer removes.
C13_StoredHtmlSanitized ==
  (fnPc = "done" /\ fnArgs.purifyHtml /\ ~fnResult.error) =>
    Sanitize(fnResult.content) = fnResult.content

\* C14: validateDocumentSlug returns the trimmed input exactly when the input
\* is a string whose trimmed form is non-empty, consists only of letters,
\* digits, '-', '_' and '/', contains no '..', and neither starts nor ends
\* with '/'; for every other input it throws a Response with status 400;
\* validating a validated slug returns it unchanged.
C14_SlugValidation ==
  fnPc = "done" =>
    LET trimmed == Trim(fnArgs.value)
        valid ==
          /\ fnArgs.type = "string"
          /\ trimmed # <<>>
          /\ {trimmed[k] : k \in 1..Len(trimmed)} \subseteq {"a", "Z", "7", "-", "_", "/"}
          /\ ~\E k \in 1..Len(trimmed) : k < Len(trimmed) /\ trimmed[k] = "." /\ trimmed[k + 1] = "."
          /\ Head(trimmed) # "/"
          /\ trimmed[Len(trimmed)] # "/"
    IN  /\ fnResult.returned <=> valid
        /\ fnResult.returned => fnResult.value = trimmed
        /\ ~fnResult.returned => fnResult.status = 400
        /\ fnResult.returned =>
             validateDocumentSlug([type |-> "string", value |-> fnResult.value]) = fnResult

C14_Witness ==
  /\ fnPc = "done"
  /\ fnArgs.type = "string"
  /\ fnArgs.value = <<" ", "a", "-">>
  /\ fnResult.returned
  /\ fnResult.value = <<"a", "-">>

\* C15: a manifest record carries the document's slug (its relative path
\* without the extension), that path, its folder (absent for a root-level
\* file), the file's modification time and size as _mtime and _size, and its
\* frontmatter fields; frontmatter never replaces slug, path, folder, _mtime
\* or _size.
C15_RecordFields ==
  fnPc = "done" =>
    /\ fnResult["slug"] = SlugOf(fnArgs.relPath)
    /\ fnResult["path"] = fnArgs.relPath
    /\ fnResult["folder"] = RecordFolder(fnArgs.relPath)
    /\ fnResult["_mtime"] = fnArgs.metadata.mtime
    /\ fnResult["_size"] = fnArgs.metadata.size
    /\ \A key \in DOMAIN fnArgs.frontmatter \ {"slug", "path", "folder", "_mtime", "_size"} :
         fnResult[key] = fnArgs.frontmatter[key]

\* C16: the written global manifest has _buildMode 'chunked' exactly when
\* chunkByFolder is on and 'single' otherwise; it has chunkedFolders only in
\* chunked mode, and every folder chunkedFolders names has a content chunk
\* artifact (compressed or not) on disk.
C16_BuildModeAndChunks ==
  manifestFile.exists =>
    /\ manifestFile._buildMode = (IF cfg.chunkByFolder THEN "chunked" ELSE "single")
    /\ manifestFile.hasChunkedFolders => manifestFile._buildMode = "chunked"
    /\ \A folder \in manifestFile.chunkedFolders :
         \/ chunkFiles[FolderKey(folder)].gz.exists
         \/ chunkFiles[FolderKey(folder)].plain.exists

\* C17: markdownSlugLoader throws a 404 Response whenever the slug is not in
\* the manifest, for API and UI requests alike; when the slug is in the
\* manifest but no content is loaded for it, an API request gets the 404
\* Response and a UI request gets {manifest, selectedDoc: slug, document:
\* null, loading: true}; the loading result is returned in that last case
\* only, never in place of a 404 raised inside the loader.
C17_LoaderNotFound ==
  rtCall.op = "markdownSlugLoader" =>
    LET call == rtCall.result
        inManifest == \E k \in 1..Len(call.manifest) : call.manifest[k].slug = rtCall.slug
        loading == [kind |-> "page", manifest |-> call.manifest, selectedDoc |-> rtCall.slug,
                    document |-> NoContent, loading |-> TRUE]
    IN  /\ ~inManifest => (call.outcome.thrown /\ call.outcome.status = 404)
        /\ (inManifest /\ call.document = NoContent /\ call.isApiCall) =>
             (call.outcome.thrown /\ call.outcome.status = 404)
        /\ (inManifest /\ call.document = NoContent /\ ~call.isApiCall) =>
             (~call.outcome.thrown /\ call.outcome.value = loading)
        /\ (~call.outcome.thrown /\ call.outcome.value.kind = "page"
              /\ call.outcome.value.loading) =>
             (inManifest /\ call.document = NoContent /\ ~call.isApiCall)

\* a UI request for a slug the manifest lists while its content is not loaded
C17_Witness ==
  /\ rtCall.op = "markdownSlugLoader"
  /\ ~rtCall.result.isApiCall
  /\ \E k \in 1..Len(rtCall.result.manifest) : rtCall.result.manifest[k].slug = rtCall.slug
  /\ rtCall.result.document = NoContent
  /\ ~rtCall.result.outcome.thrown
  /\ rtCall.result.outcome.value.loading

\* C18: getMarkdownManifest returns one record per document of the global
\* manifest (the one getGlobalManifest gives), in the same order, each
\* without _mtime and _size and with every other field unchanged.
C18_ManifestCleaned ==
  rtCall.op = "getMarkdownManifest" =>
    LET documents == GlobalResult(globalManifestCache).documents
    IN  /\ Len(rtCall.result) = Len(documents)
        /\ \A k \in 1..Len(documents) :
             /\ DOMAIN rtCall.result[k] = DOMAIN documents[k] \ {"_mtime", "_size"}
             /\ \A field \in DOMAIN rtCall.result[k] : rtCall.result[k][field] = documents[k][field]

\* C19: two different folders never share a content chunk artifact: the
\* folders a written manifest names have pairwise different chunk file names,
\* for writeFolderFiles and loadFolderContent alike, so what the runtime loads
\* for one folder is never what the build wrote for another.
C19_ChunkNamesDistinct ==
  \A f1, f2 \in manifestFile.chunkedFolders :
    f1 # f2 => FolderKey(f1) # FolderKey(f2)

\* C20: in single mode, after any sequence of source edits and builds, the
\* keys of the content artifact on disk (as the runtime reads it) are the
\* slugs of the manifest on disk, and hasMarkdownDocument(slug) is true
\* exactly for those slugs.
C20_ContentKeysAreManifestSlugs ==
  (~cfg.chunkByFolder /\ manifestFile.exists) =>
    LET slugs == {manifestFile.documents[k].slug : k \in 1..Len(manifestFile.documents)}
    IN  /\ DOMAIN getMarkdownContent = slugs
        /\ \A slug \in Slugs : hasMarkdownDocument(slug) <=> slug \in slugs

\* C21: in single mode, and in chunked mode with incrementalByFolder, a
\* buildStart that finds a file of the previous manifest removed from the
\* source (the last file of its folder or not) is not skipped, and the
\* manifest it writes has no record for the removed file.
C21_RemovalDetected ==
  (last.op = "build" /\ (~cfg.chunkByFolder \/ cfg.incrementalByFolder)) =>
    \A k \in 1..Len(last.prevDocs) :
      ~files[last.prevDocs[k].path].present =>
        /\ ~last.skipped
        /\ \A j \in 1..Len(manifestFile.documents) :
             manifestFile.documents[j].path # last.prevDocs[k].path

\* C22: execConcurrently invokes the handler exactly once for every item and
\* resolves only after every invocation has settled; a rejected invocation
\* does not keep the remaining items from being handled, and the function
\* resolves all the same.
C22_EachItemOnceAllSettled ==
  /\ \A i \in ExItemIds : exCalls[i] <= 1
  /\ \A i \in ExItemIds : (exStatus[i] = "unstarted") = (exCalls[i] = 0)
  /\ exPc = "done" => \A i \in ExItemIds : exCalls[i] = 1 /\ Settled(i)

\* resolved although the first of several invocations rejected
C22_Witness ==
  /\ exPc = "done"
  /\ exItems >= 3
  /\ exStatus[1] = "rejected"
  /\ \A i \in ExItemIds : exCalls[i] = 1 /\ Settled(i)

\* C23: execConcurrently is a fixed-size worker pool: it never waits for an
\* in-flight handler to settle while an item is unstarted and fewer than
\* `limit` handlers are in flight (a handler that settles frees its slot for
\* the next item at once).
C23_WorkerPool ==
  (exNext <= exItems /\ Cardinality(InFlight) < exLimit) =>
    ~(exPc = "drain" /\ exI > 0 /\ ~Settled(exExecuting[exI]))

\* C25: sortManifest returns the records ordered by folder ascending, the
\* folderless records first; within one folder by date, newest first; then
\* by title; then by slug.
C25_SortOrder ==
  fnPc = "done" =>
    \A i, j \in 1..Len(fnResult) :
      i < j =>
        LET a == fnResult[i]
            b == fnResult[j]
        IN  IF a.folder # b.folder THEN LocaleCompare(a.folder, b.folder) < 0
            ELSE IF a.date # NoDate /\ b.date # NoDate /\ a.date # b.date THEN a.date > b.date
            ELSE IF a.title # NoTitle /\ b.title # NoTitle /\ a.title # b.title
              THEN LocaleCompare(a.title, b.title) < 0
            ELSE LocaleCompare(a.slug, b.slug) < 0

\* C26: for the same set of records with distinct slugs, sortManifest returns
\* the same sequence whatever order the records were in on input.
C26_SortDeterministic ==
  fnPc = "done" =>
    \A other \in Orders({fnArgs[k] : k \in 1..Len(fnArgs)}) : sortManifest(other) = fnResult

\* C24: a file whose processing fails is in neither the manifest nor the
\* content of the result and counts once in errorCount, while every other
\* file is processed; processedCount + errorCount is the number of input
\* files, and the slugs of the manifest are the keys of the content.
C24_FailedFilesLeftOut ==
  fnPc = "done" =>
    LET entries == fnArgs.entries
        failed == {p \in DOMAIN entries : entries[p].fails}
        listed == {fnResult.manifest[k].path : k \in 1..Len(fnResult.manifest)}
    IN  /\ listed = DOMAIN entries \ failed
        /\ DOMAIN fnResult.content = {SlugOf(p) : p \in DOMAIN entries \ failed}
        /\ fnResult.errorCount = Cardinality(failed)
        /\ fnResult.processedCount + fnResult.errorCount = Cardinality(DOMAIN entries)
        /\ {fnResult.manifest[k].slug : k \in 1..Len(fnResult.manifest)} = DOMAIN fnResult.content

\* C27: in chunked mode, handleHotUpdate for a file of folder F processes
\* the files of F only and rewrites no chunk artifact but F's; in the
\* manifest it writes, the records of every other folder are those of the
\* previous manifest and the records of F are the freshly processed ones,
\* each once.
C27_HotUpdateOneFolder ==
  [][(last'.op = "hot" /\ runs' = runs + 1 /\ cfg.chunkByFolder) =>
       LET F == CHOOSE folder \in last'.changedFolders : TRUE
           docs == manifestFile'.documents
           prev == loadPreviousManifest
           OfF(doc) == FolderOrRoot(doc.folder) = F
           NotOfF(doc) == ~OfF(doc)
           fresh == {MakeRecord(p, Metadata(files[p].mtime, files[p].size), files'[p].date) :
                       p \in {q \in last'.processed : ~ProcessingFails(files[q])}}
       IN  /\ last'.processed = {p \in PresentPaths(files) : GroupFolder(p) = F}
           /\ \A key \in ChunkKeys \ {FolderKey(F)} : chunkFiles'[key] = chunkFiles[key]
           /\ {docs[k] : k \in {j \in 1..Len(docs) : NotOfF(docs[j])}}
                = {prev[k] : k \in {j \in 1..Len(prev) : NotOfF(prev[j])}}
           /\ Len(SelectSeq(docs, NotOfF)) = Len(SelectSeq(prev, NotOfF))
           /\ {docs[k] : k \in {j \in 1..Len(docs) : OfF(docs[j])}} = fresh
           /\ Len(SelectSeq(docs, OfF)) = Cardinality(fresh)]_vars

\* C28: handleHotUpdate sends the full-reload message only after the
\* artifacts of the update have been written, and once per handled file; for
\* a file outside the source directory, or without the markdown extension,
\* it writes nothing and sends nothing.
C28_ReloadAfterWrite ==
  LET inSource == StartsWith(fnArgs.file, DocsDir \o <<"/">>)
      markdown == EndsWith(fnArgs.file, EXTENSION)
  IN  /\ fnResult.sent > 0 => fnResult.wrote
      /\ fnResult.sent <= 1
      /\ (fnPc = "done" /\ inSource /\ markdown) => fnResult.sent = 1
      /\ (~inSource \/ ~markdown) => (~fnResult.wrote /\ fnResult.sent = 0)

\* C29: when two handleHotUpdate runs in chunked mode, for files of
\* different folders, overlap in time, the manifest on disk after both have
\* finished holds the freshly processed records of both folders.
C29_NoLostUpdate ==
  (\A run \in Runs : fnPc[run] = "done") =>
    \A run \in Runs :
      \A k \in 1..Len(fnResult[run].fresh) :
        \E j \in 1..Len(manifestFile.documents) :
          manifestFile.documents[j] = fnResult[run].fresh[k]

\* C30: a failed fetch is never cached: a getMarkdownManifest call made while
\* no manifest has been fetched successfully (since the last
\* clearMarkdownCache) fetches it and returns the documents of the manifest
\* asset if there is one, the empty list if not; likewise getMarkdownContent
\* for the content file and getMarkdownDocument for a folder chunk.
C30_FailedFetchNotCached ==
  [][LET was == rtFetched
         now == rtCall'
         single == was.manifest.data._buildMode = "single"
         at == FindSlug(was.manifest.data.documents, now.slug)
         folder == FolderOrRoot(was.manifest.data.documents[at].folder)
     IN  /\ (now.op = "getMarkdownManifest" /\ ~was.manifest.set) =>
              /\ FetchOf("manifest", NoFolder) \in now.fetched
              /\ now.result = CleanManifest(getGlobalManifest.documents)
         /\ (now.op = "getMarkdownContent" /\ was.manifest.set /\ single /\ ~was.content.set) =>
              /\ FetchOf("content", NoFolder) \in now.fetched
              /\ now.result = getMarkdownContent
         /\ (now.op = "getMarkdownDocument" /\ was.manifest.set /\ ~single /\ at # 0
               /\ ~was.chunks[folder].set) =>
              FetchOf("chunk", folder) \in now.fetched]_vars

====
